---- MODULE Spec2Model ----
(***************************************************************************)
(* Purchase-order workflow of src/workflows/po_workflow.py: the stage      *)
(* handlers, the router should_continue, the compiled graph with its       *)
(* per-stage edge maps, and process_po which drives one run.               *)
(*                                                                         *)
(* Abstractions.  Dictionaries and lists that the router only tests for    *)
(* emptiness are sequences (<<>> is the empty dict / list).  Texts are     *)
(* short tags.  A request field is a record [type, v]: v is the number of  *)
(* a "num", the length of a "str" or "list"; type "absent" is a key that   *)
(* is not in the request.  processing_time (wall clock) is not modelled.   *)
(***************************************************************************)
EXTENDS Integers, Sequences, FiniteSets, TLC

VARIABLES
    state,      \* the POWorkflowState threaded through the graph
    pc,         \* position of process_po: "start", "node", "branch", "returned", "raised"
                \* ("router" when only should_continue is exercised)
    node,       \* the graph node to run next / that has just run
    result,     \* the mapping process_po returns
    trace,      \* the handlers executed so far, each with the final_decision it left
                \* and what its collaborators answered: "favourable", "negative", "failed"
    lastCall,   \* the calls made by the handler that has just run, until the next one is scheduled
    routed      \* the last answer of should_continue

vars == <<state, pc, node, result, trace, lastCall, routed>>

\* ---------------------------------------------------------------- bounds
MaxAmount == 1
MaxDeviations == 1
MaxSteps == 7
MaxRouterCalls == 2
ScoreOver == 1          \* whole points below 0 and above 100 a score may lie
MaxScoreStep == 2       \* largest step, in grid points, between two scores compared
MaxTotalCents == 25     \* largest PO total, in cents, a plan is computed for
MaxCount == 2           \* largest count or small quantity in a supplier's history
LargeQty == 8000        \* a large ordered quantity in a supplier's history
MaxKey == 4             \* largest po_id a PurchaseOrders row may have
MaxRuns == 2            \* process_po runs submitted against one budget ledger
MaxLedgerAmount == 2    \* largest allocation of a department of the budget ledger
MaxCallAmount == 1      \* largest amount, either side of zero, of a budget call
MaxReleases == 1        \* calls of release_budget_reservation against the ledger

\* ------------------------------------------------------- request values
Absent == [type |-> "absent", v |-> 0]
Str(n) == [type |-> "str", v |-> n]
Num(n) == [type |-> "num", v |-> n]
List(n) == [type |-> "list", v |-> n]
\* float('nan'): a float that is true, and for which no comparison holds
NaN == [type |-> "nan", v |-> 1]

\* Python truthiness of a request field that is present
Truthy(x) == x.v # 0

SupplierIds == {"<absent>", "", "SUP001"}
Departments == {"<absent>", "IT"}
Amounts == {Absent, Str(3)} \cup {Num(n) : n \in -1..MaxAmount}
ItemsValues == {List(0), List(1), Str(2)}
RequestPoIds == {"<absent>", "PO-CALLER"}

AllRequests ==
    [supplier_id : SupplierIds, amount : Amounts, department : Departments,
     items : ItemsValues, po_id : RequestPoIds]

\* a request that passes validation, and the requests that differ from it in
\* at most MaxDeviations of the four required fields
ValidRequest ==
    [supplier_id |-> "SUP001", amount |-> Num(1), department |-> "IT",
     items |-> List(1), po_id |-> "<absent>"]
RequiredFields == {"supplier_id", "amount", "department", "items"}
Deviates(r, f) ==
    IF f = "amount" THEN ~(r.amount.type = "num" /\ r.amount.v > 0)
    ELSE r[f] # ValidRequest[f]
Deviations(r) == Cardinality({f \in RequiredFields : Deviates(r, f)})
Requests == {r \in AllRequests : Deviations(r) <= MaxDeviations}

Stages == {"validate_request", "check_supplier", "verify_budget",
           "process_approval", "calculate_payment", "send_notifications"}

Decisions == {"APPROVED", "REJECTED", "PENDING_APPROVAL", "ERROR"}

\* ------------------------------------------------------ helpers.py
generate_po_id == "PO-GENERATED"

\* validate_po_request of utils/helpers.py: <<is_valid, message>>
helpers_validate_po_request(po_request) ==
    IF po_request.supplier_id = "<absent>" \/ po_request.supplier_id = ""
        THEN <<FALSE, "Missing required field: supplier_id">>
    ELSE IF po_request.amount.type = "absent" \/ ~Truthy(po_request.amount)
        THEN <<FALSE, "Missing required field: amount">>
    ELSE IF po_request.department = "<absent>" \/ po_request.department = ""
        THEN <<FALSE, "Missing required field: department">>
    ELSE IF po_request.items.type = "absent" \/ ~Truthy(po_request.items)
        THEN <<FALSE, "Missing required field: items">>
    ELSE IF \/ po_request.amount.type \notin {"num", "nan"}
            \/ po_request.amount.type = "num" /\ po_request.amount.v <= 0
        THEN <<FALSE, "Amount must be a positive number">>
    ELSE IF po_request.items.type # "list" \/ po_request.items.v = 0
        THEN <<FALSE, "Items must be a non-empty list">>
    ELSE <<TRUE, "Valid">>

\* ------------------------------------------------- collaborator responses
\* What ainvoke hands back: it raises, or returns a value of some shape.
\* body is what the mapping inside says: "err" carries error: true, "neg" is
\* the business-negative answer, "pos" the positive one.
MappingShapes == {"dict", "list_dict", "str_dict"}
OtherShapes == {"list_other", "list_empty", "str_nondict", "str_bad", "other"}
Bodies == {"err", "neg", "pos"}

Raise == [shape |-> "raise", body |-> "none"]
Returns ==
    [shape : MappingShapes, body : Bodies] \cup [shape : OtherShapes, body : {"none"}]
Outcomes == Returns \cup {Raise}

\* the outcomes the stage handlers are run against: one shape of each kind
\* _handle_tool_response tells apart (a mapping, a value it replaces by an
\* error mapping, a parsed text that is no mapping) and a raising call
StageOutcomes ==
    {o \in Outcomes : o.shape \in {"dict", "list_other", "str_nondict", "raise"}}
\* the notification handler never looks into what the tools return
NotifyOutcomes == {[shape |-> "dict", body |-> "pos"], Raise}

\* _handle_tool_response: the value the handler goes on with.  mapping = FALSE
\* is a parsed text that is not a dict (the code returns it as parsed).
ErrorMapping == [mapping |-> TRUE, body |-> "err"]
_handle_tool_response(response) ==
    IF response.shape \in {"str_dict"} THEN [mapping |-> TRUE, body |-> response.body]
    ELSE IF response.shape = "str_nondict" THEN [mapping |-> FALSE, body |-> "none"]
    ELSE IF response.shape = "str_bad" THEN ErrorMapping
    ELSE IF response.shape = "dict" THEN [mapping |-> TRUE, body |-> response.body]
    ELSE IF response.shape = "list_dict" THEN [mapping |-> TRUE, body |-> response.body]
    ELSE ErrorMapping

\* get_tools_safe: a mapping from tool names to tools (empty when the server
\* cannot be reached), or an object that is not a mapping.
ToolsOf(server) ==
    CASE server = "supplier" -> {"validate_supplier", "check_supplier_capacity"}
      [] server = "budget" -> {"check_budget_availability", "reserve_budget"}
      [] server = "approval" -> {"get_required_approvers", "send_approval_request"}
      [] server = "notification" -> {"send_email_notification", "send_slack_notification"}
      [] server = "payment" -> {"recommend_payment_plan"}

get_tools_safe(server) ==
    [mapping : {TRUE}, names : SUBSET ToolsOf(server)]
        \cup {[mapping |-> FALSE, names |-> {}]}


\* ------------------------------------------------------ workflow state
\* initial_state of process_po for a request
initial_state(po_request) ==
    [messages |-> <<"Process PO">>,
     po_request |-> po_request,
     po_id |-> "",
     supplier_validation |-> <<>>,
     budget_check |-> <<>>,
     approval_status |-> <<>>,
     payment_plan |-> <<>>,
     payment_attempted |-> FALSE,
     notifications |-> <<>>,
     final_decision |-> "",
     decision_reason |-> <<>>,
     errors |-> <<>>]

\* Result blocks keep the keys a handler stores, not the collaborators' texts.

\* one collaborator invocation: the tool, what came back, and the decision
\* the call announced (notification tools only)
Call(tool, outcome, arg) == [tool |-> tool, outcome |-> outcome, arg |-> arg]

\* the except branch that leaves an earlier REJECTED in place
Fail_KeepRejected(st, error_msg) ==
    [st EXCEPT !.errors = Append(@, <<error_msg>>),
               !.final_decision = IF @ = "REJECTED" THEN @ ELSE "ERROR",
               !.decision_reason = <<error_msg>>]

\* the except branch without the entry in errors
Fail_NoErrorEntry(st, error_msg) ==
    [st EXCEPT !.final_decision = "ERROR",
               !.decision_reason = <<error_msg>>]

\* the except branch shared by the first five handlers; error_msg stands
\* for the handler's text followed by the text of the exception
Fail(st, error_msg) ==
    [st EXCEPT !.errors = Append(@, <<error_msg>>),
               !.final_decision = "ERROR",
               !.decision_reason = <<error_msg>>]

\* a handler's outcome: the state it returns and the calls it made
Out(st, calls) == [st |-> st, calls |-> calls]

\* ------------------------------------------------------ validate_request
\* llm: "ok", "raise" (ainvoke raises) or "unavailable" (llm_manager.llm raises)
LlmOutcomes == {"ok", "raise", "unavailable"}

\* the handler with an analysis whose failure reaches the outer except clause
validate_po_request_AnalysisDecides(st, llm) ==
    LET st1 == IF st.po_id = ""
                 THEN [st EXCEPT !.po_id = generate_po_id,
                                 !.po_request.po_id = generate_po_id]
                 ELSE st
        v == helpers_validate_po_request(st1.po_request)
    IN  IF ~v[1]
          THEN Out([st1 EXCEPT !.final_decision = "REJECTED",
                               !.decision_reason = <<"Validation failed", v[2]>>,
                               !.errors = Append(@, <<v[2]>>)],
                   <<>>)
          ELSE IF llm = "ok"
          THEN Out([st1 EXCEPT !.messages = @ \o <<"AI Analysis", "validated successfully">>],
                   <<Call("llm", [shape |-> "other", body |-> "none"], "")>>)
          ELSE Out(Fail(st1, "Error during PO validation"),
                   IF llm = "unavailable" THEN <<>> ELSE <<Call("llm", Raise, "")>>)

validate_po_request(st, llm) ==
    LET st1 == IF st.po_id = ""
                 THEN [st EXCEPT !.po_id = generate_po_id,
                                 !.po_request.po_id = generate_po_id]
                 ELSE st
        v == helpers_validate_po_request(st1.po_request)
    IN  IF ~v[1]
          THEN Out([st1 EXCEPT !.final_decision = "REJECTED",
                               !.decision_reason = <<"Validation failed", v[2]>>,
                               !.errors = Append(@, <<v[2]>>)],
                   <<>>)
          ELSE Out([st1 EXCEPT !.messages =
                        @ \o (IF llm = "ok" THEN <<"AI Analysis">> ELSE <<>>)
                          \o <<"validated successfully">>],
                   IF llm = "unavailable" THEN <<>>
                   ELSE <<Call("llm", IF llm = "ok" THEN [shape |-> "other", body |-> "none"]
                                      ELSE Raise, "")>>)

\* -------------------------------------------------------- check_supplier
\* the handler naming only the first check that failed
check_supplier_FirstReasonOnly(st, tools, rv, rc) ==
    LET E == "Error during supplier validation"
        req == st.po_request
        cv == Call("validate_supplier", rv, "")
        cc == Call("check_supplier_capacity", rc, "")
        sr == _handle_tool_response(rv)
        cr == _handle_tool_response(rc)
        st1 == [st EXCEPT !.supplier_validation = <<"validation", "capacity", "checked_at">>]
    IN  IF req.supplier_id = "<absent>" THEN Out(Fail(st, E), <<>>)
        ELSE IF req.amount.type = "absent" THEN Out(Fail(st, E), <<>>)
        ELSE IF ~tools.mapping THEN Out(Fail(st, E), <<>>)
        ELSE IF "validate_supplier" \notin tools.names
                \/ "check_supplier_capacity" \notin tools.names
            THEN Out(Fail(st, E), <<>>)
        ELSE IF rv = Raise THEN Out(Fail(st, E), <<cv>>)
        ELSE IF rc = Raise THEN Out(Fail(st, E), <<cv, cc>>)
        ELSE IF ~sr.mapping THEN Out(Fail(st1, E), <<cv, cc>>)
        ELSE IF sr.body = "err"
            THEN Out([st1 EXCEPT !.final_decision = "REJECTED",
                                 !.decision_reason = <<"Supplier validation error", "message">>],
                     <<cv, cc>>)
        ELSE IF ~cr.mapping THEN Out(Fail(st1, E), <<cv, cc>>)
        ELSE IF cr.body = "err"
            THEN Out([st1 EXCEPT !.final_decision = "REJECTED",
                                 !.decision_reason = <<"Supplier capacity check error", "message">>],
                     <<cv, cc>>)
        ELSE LET is_valid == sr.body = "pos"
                 capacity_ok == cr.body = "pos"
                 reasons == IF ~is_valid THEN <<"supplier message">>
                            ELSE <<"Order exceeds capacity">>
             IN  IF ~is_valid \/ ~capacity_ok
                   THEN Out([st1 EXCEPT !.final_decision = "REJECTED",
                                        !.decision_reason = <<"Supplier validation failed">> \o reasons],
                            <<cv, cc>>)
                   ELSE Out([st1 EXCEPT !.messages = Append(@, "Supplier validated successfully")],
                            <<cv, cc>>)

check_supplier(st, tools, rv, rc) ==
    LET E == "Error during supplier validation"
        req == st.po_request
        cv == Call("validate_supplier", rv, "")
        cc == Call("check_supplier_capacity", rc, "")
        sr == _handle_tool_response(rv)
        cr == _handle_tool_response(rc)
        st1 == [st EXCEPT !.supplier_validation = <<"validation", "capacity", "checked_at">>]
    IN  IF req.supplier_id = "<absent>" THEN Out(Fail(st, E), <<>>)
        ELSE IF req.amount.type = "absent" THEN Out(Fail(st, E), <<>>)
        ELSE IF ~tools.mapping THEN Out(Fail(st, E), <<>>)
        ELSE IF "validate_supplier" \notin tools.names
                \/ "check_supplier_capacity" \notin tools.names
            THEN Out(Fail(st, E), <<>>)
        ELSE IF rv = Raise THEN Out(Fail(st, E), <<cv>>)
        ELSE IF rc = Raise THEN Out(Fail(st, E), <<cv, cc>>)
        ELSE IF ~sr.mapping THEN Out(Fail(st1, E), <<cv, cc>>)
        ELSE IF sr.body = "err"
            THEN Out([st1 EXCEPT !.final_decision = "REJECTED",
                                 !.decision_reason = <<"Supplier validation error", "message">>],
                     <<cv, cc>>)
        ELSE IF ~cr.mapping THEN Out(Fail(st1, E), <<cv, cc>>)
        ELSE IF cr.body = "err"
            THEN Out([st1 EXCEPT !.final_decision = "REJECTED",
                                 !.decision_reason = <<"Supplier capacity check error", "message">>],
                     <<cv, cc>>)
        ELSE LET is_valid == sr.body = "pos"
                 capacity_ok == cr.body = "pos"
                 reasons == (IF ~is_valid THEN <<"supplier message">> ELSE <<>>)
                            \o (IF ~capacity_ok THEN <<"Order exceeds capacity">> ELSE <<>>)
             IN  IF ~is_valid \/ ~capacity_ok
                   THEN Out([st1 EXCEPT !.final_decision = "REJECTED",
                                        !.decision_reason = <<"Supplier validation failed">> \o reasons],
                            <<cv, cc>>)
                   ELSE Out([st1 EXCEPT !.messages = Append(@, "Supplier validated successfully")],
                            <<cv, cc>>)

\* --------------------------------------------------------- verify_budget
verify_budget(st, tools, rb, rr) ==
    LET E == "Error during budget verification"
        req == st.po_request
        cb == Call("check_budget_availability", rb, "")
        cres == Call("reserve_budget", rr, "")
        br == _handle_tool_response(rb)
        rres == _handle_tool_response(rr)
        st1 == [st EXCEPT !.budget_check = <<"result", "checked_at">>]
    IN  IF req.department = "<absent>" THEN Out(Fail(st, E), <<>>)
        ELSE IF req.amount.type = "absent" THEN Out(Fail(st, E), <<>>)
        ELSE IF ~tools.mapping THEN Out(Fail(st, E), <<>>)
        ELSE IF "check_budget_availability" \notin tools.names
            THEN Out(Fail(st, E), <<>>)
        ELSE IF rb = Raise THEN Out(Fail(st, E), <<cb>>)
        ELSE IF ~br.mapping THEN Out(Fail(st, E), <<cb>>)
        ELSE IF br.body = "err"
            THEN Out([st EXCEPT !.final_decision = "ERROR",
                                !.decision_reason = <<"Budget check error", "message">>],
                     <<cb>>)
        ELSE IF br.body # "pos"
            THEN Out([st1 EXCEPT !.final_decision = "REJECTED",
                                 !.decision_reason = <<"Insufficient budget">>],
                     <<cb>>)
        ELSE IF "reserve_budget" \notin tools.names THEN Out(st1, <<cb>>)
        ELSE IF rr = Raise THEN Out(Fail(st1, E), <<cb, cres>>)
        ELSE IF ~rres.mapping THEN Out(Fail(st1, E), <<cb, cres>>)
        ELSE IF rres.body = "pos"
            THEN Out([st1 EXCEPT !.budget_check = Append(@, "reservation"),
                                 !.messages = Append(@, "Budget reserved")],
                     <<cb, cres>>)
        ELSE Out(st1, <<cb, cres>>)


\* ------------------------------------------------------ process_approval
process_approval(st, tools, ra, rs) ==
    LET E == "Error during approval processing"
        req == st.po_request
        ca == Call("get_required_approvers", ra, "")
        cs == Call("send_approval_request", rs, "")
        ar == _handle_tool_response(ra)
        st1 == [st EXCEPT !.approval_status = <<"result", "processed_at">>]
    IN  IF req.amount.type = "absent" THEN Out(Fail(st, E), <<>>)
        ELSE IF req.department = "<absent>" THEN Out(Fail(st, E), <<>>)
        ELSE IF ~tools.mapping THEN Out(Fail(st, E), <<>>)
        ELSE IF "get_required_approvers" \notin tools.names
            THEN Out(Fail(st, E), <<>>)
        ELSE IF ra = Raise THEN Out(Fail(st, E), <<ca>>)
        ELSE IF ~ar.mapping THEN Out(Fail(st, E), <<ca>>)
        ELSE IF ar.body = "err"
            THEN Out([st EXCEPT !.final_decision = "ERROR",
                                !.decision_reason = <<"Approval check error", "message">>],
                     <<ca>>)
        ELSE IF ar.body = "pos"
            THEN Out([st1 EXCEPT !.final_decision = "APPROVED",
                                 !.decision_reason = <<"Auto-approved">>,
                                 !.approval_status = Append(@, "auto_approved")],
                     <<ca>>)
        ELSE IF "send_approval_request" \in tools.names
            THEN IF rs = Raise
                   THEN Out(Fail(st1, E), <<ca, cs>>)
                   ELSE Out([st1 EXCEPT !.approval_status = Append(@, "request_details"),
                                        !.final_decision = "PENDING_APPROVAL",
                                        !.decision_reason = <<"Awaiting approval from">>,
                                        !.messages = Append(@, "Approval requests sent")],
                            <<ca, cs>>)
        ELSE Out([st1 EXCEPT !.final_decision = "PENDING_APPROVAL",
                             !.decision_reason = <<"Manual approval required">>],
                 <<ca>>)

\* ----------------------------------------------------- calculate_payment
\* body "pos" is a complete plan, "neg" a mapping without the policy and
\* amounts entries the handler reads after storing it.
\* the try block with its except branch
calculate_payment_try(st, tools, rp) ==
    LET E == "Error during payment calculation"
        req == st.po_request
        cp == Call("recommend_payment_plan", rp, "")
        plan == _handle_tool_response(rp)
        po_id_for_calc == IF st.po_id # "" THEN st.po_id
                          ELSE IF req.po_id = "<absent>" THEN "" ELSE req.po_id
    IN      IF ~tools.mapping THEN Out(Fail(st, E), <<>>)
            ELSE IF "recommend_payment_plan" \notin tools.names
                THEN Out(Fail(st, E), <<>>)
            ELSE IF po_id_for_calc = "" THEN Out(Fail(st, E), <<>>)
            ELSE IF req.supplier_id = "<absent>" \/ req.supplier_id = ""
                THEN Out(Fail(st, E), <<>>)
            ELSE IF rp = Raise THEN Out(Fail(st, E), <<cp>>)
            ELSE IF ~plan.mapping THEN Out(Fail(st, E), <<cp>>)
            ELSE IF plan.body = "err"
                THEN Out([st EXCEPT !.final_decision = "ERROR",
                                    !.decision_reason = <<"Payment plan error", "message">>,
                                    !.errors = Append(@, <<"Payment plan error", "message">>)],
                         <<cp>>)
            ELSE IF plan.body = "neg"
                THEN Out(Fail([st EXCEPT !.payment_plan = <<"malformed">>], E),
                         <<cp>>)
            ELSE Out([st EXCEPT !.payment_plan = <<"plan">>,
                                !.messages = Append(@, "Payment plan")],
                     <<cp>>)

\* calculate_payment that drops the approval block on its way out
calculate_payment_ClearsApproval(st, tools, rp) ==
    LET body == calculate_payment_try(st, tools, rp)
    IN  Out([body.st EXCEPT !.payment_attempted = TRUE, !.approval_status = <<>>],
            body.calls)

\* calculate_payment without the finally clause
calculate_payment_NoFinally(st, tools, rp) ==
    calculate_payment_try(st, tools, rp)

\* the finally clause sets the latch on every way out of the try block
calculate_payment(st, tools, rp) ==
    LET body == calculate_payment_try(st, tools, rp)
    IN  Out([body.st EXCEPT !.payment_attempted = TRUE], body.calls)

\* ---------------------------------------------------- send_notifications
send_notifications(st, tools, re, rs) ==
    LET E == "Error sending notifications"
        decision == st.final_decision
        ce == Call("send_email_notification", re, decision)
        cs == Call("send_slack_notification", rs, decision)
        has_email == "send_email_notification" \in tools.names
        has_slack == "send_slack_notification" \in tools.names
        email_calls == IF has_email THEN <<ce>> ELSE <<>>
        calls == email_calls \o (IF has_slack THEN <<cs>> ELSE <<>>)
        notifications ==
            (IF has_email THEN <<"email_result">> ELSE <<>>)
            \o (IF has_slack THEN <<"slack_result">> ELSE <<>>)
        failed == [st EXCEPT !.errors = Append(@, <<E>>)]
    IN  IF ~tools.mapping THEN Out(failed, <<>>)
        ELSE IF has_email /\ st.po_request.amount.type = "absent"
            THEN Out(failed, <<>>)
        ELSE IF has_email /\ re = Raise
            THEN Out(failed, email_calls)
        ELSE IF has_slack /\ st.po_request.amount.type = "absent"
            THEN Out(failed, email_calls)
        ELSE IF has_slack /\ rs = Raise
            THEN Out(failed, calls)
        ELSE Out([st EXCEPT !.notifications = notifications,
                            !.messages = Append(@, "Notifications sent")],
                 calls)

\* ------------------------------------------------------- should_continue
\* should_continue without the payment_attempted latch
should_continue_NoLatch(st) ==
    IF st.supplier_validation = <<>> THEN "check_supplier"
    ELSE IF st.budget_check = <<>> THEN "verify_budget"
    ELSE IF st.approval_status = <<>> THEN "process_approval"
    ELSE IF st.payment_plan = <<>> THEN "calculate_payment"
    ELSE IF st.final_decision # "" /\ st.notifications = <<>> THEN "send_notifications"
    ELSE "END"

\* should_continue that ends the run once a stage has rejected the order
should_continue_StopsOnRejected(st) ==
    IF st.final_decision = "REJECTED" THEN "END"
    ELSE IF st.supplier_validation = <<>> THEN "check_supplier"
    ELSE IF st.budget_check = <<>> THEN "verify_budget"
    ELSE IF st.approval_status = <<>> THEN "process_approval"
    ELSE IF st.payment_plan = <<>> /\ ~st.payment_attempted THEN "calculate_payment"
    ELSE IF st.final_decision # "" /\ st.notifications = <<>> THEN "send_notifications"
    ELSE "END"

\* should_continue that never schedules send_notifications
should_continue_SkipsNotifications(st) ==
    IF st.supplier_validation = <<>> THEN "check_supplier"
    ELSE IF st.budget_check = <<>> THEN "verify_budget"
    ELSE IF st.approval_status = <<>> THEN "process_approval"
    ELSE IF st.payment_plan = <<>> /\ ~st.payment_attempted THEN "calculate_payment"
    ELSE "END"

should_continue(st) ==
    IF st.supplier_validation = <<>> THEN "check_supplier"
    ELSE IF st.budget_check = <<>> THEN "verify_budget"
    ELSE IF st.approval_status = <<>> THEN "process_approval"
    ELSE IF st.payment_plan = <<>> /\ ~st.payment_attempted THEN "calculate_payment"
    ELSE IF st.final_decision # "" /\ st.notifications = <<>> THEN "send_notifications"
    ELSE "END"

\* --------------------------------------------------------- _build_workflow
\* the keys of the edge map registered for each node; the branch looks the
\* router's answer up in it and faults (KeyError) when it is not a key
EdgeMap_SelfLoop(n) ==
    CASE n = "validate_request" ->
            {"check_supplier", "calculate_payment", "send_notifications", "END"}
      [] n = "check_supplier" ->
            {"check_supplier", "verify_budget", "calculate_payment", "send_notifications", "END"}
      [] n = "verify_budget" ->
            {"process_approval", "calculate_payment", "send_notifications", "END"}
      [] n = "process_approval" ->
            {"calculate_payment", "send_notifications", "END"}
      [] n = "calculate_payment" -> {"send_notifications", "END"}
      [] n = "send_notifications" -> {"END"}

EdgeMap(n) ==
    CASE n = "validate_request" ->
            {"check_supplier", "calculate_payment", "send_notifications", "END"}
      [] n = "check_supplier" ->
            {"verify_budget", "calculate_payment", "send_notifications", "END"}
      [] n = "verify_budget" ->
            {"process_approval", "calculate_payment", "send_notifications", "END"}
      [] n = "process_approval" ->
            {"calculate_payment", "send_notifications", "END"}
      [] n = "calculate_payment" -> {"send_notifications", "END"}
      [] n = "send_notifications" -> {"END"}

\* a graph entered at check_supplier
entry_point_CheckSupplier == "check_supplier"

entry_point == "validate_request"


\* ------------------------------------------------------------ process_po
NoTools == [mapping |-> TRUE, names |-> {}]
NoCalls == [stage |-> "", tools |-> NoTools, calls |-> <<>>]
NoResult == [initial_state([supplier_id |-> "<absent>", amount |-> Absent,
                            department |-> "<absent>", items |-> List(0),
                            po_id |-> "<absent>"])
             EXCEPT !.final_decision = "<not returned>"]

Init ==
    /\ \E po_request \in Requests : state = initial_state(po_request)
    /\ pc = "start"
    /\ node = ""
    /\ result = NoResult
    /\ trace = <<>>
    /\ lastCall = NoCalls
    /\ routed = ""

\* process_po up to workflow.ainvoke: the first message formats the amount
\* with ',.2f', which raises for an amount that is not a number
Start ==
    /\ pc = "start"
    /\ IF state.po_request.amount.type \in {"str", "list"}
         THEN pc' = "raised" /\ node' = node
         ELSE pc' = "node" /\ node' = entry_point
    /\ UNCHANGED <<state, result, trace, lastCall, routed>>

\* the tools a handler cannot do without
RequiredTools(stage) ==
    CASE stage = "check_supplier" -> {"validate_supplier", "check_supplier_capacity"}
      [] stage = "verify_budget" -> {"check_budget_availability"}
      [] stage = "process_approval" -> {"get_required_approvers"}
      [] stage = "calculate_payment" -> {"recommend_payment_plan"}
      [] OTHER -> {}

\* what the handler made of the answer of a call
Handled(c) == _handle_tool_response(c.outcome)
DecisiveTools == {"validate_supplier", "check_supplier_capacity",
                  "check_budget_availability", "get_required_approvers",
                  "recommend_payment_plan"}

\* The collaborators of the handler did their part: the tools the handler
\* requires are there (one notification tool at least), the handler got as
\* far as calling them, and every call that decides the stage (or notifies)
\* came back as a mapping without error: true.
\* The answers of the analysis call, of reserve_budget and of
\* send_approval_request are left open.
Responded(n, tools, out) ==
    /\ tools.mapping
    /\ RequiredTools(n) \subseteq tools.names
    /\ n = "send_notifications" => tools.names # {}
    /\ n # "validate_request" => out.calls # <<>>
    /\ \A i \in 1..Len(out.calls) :
          out.calls[i].tool \in DecisiveTools \cup ToolsOf("notification")
            => /\ out.calls[i].outcome # Raise
               /\ Handled(out.calls[i]).mapping
               /\ Handled(out.calls[i]).body # "err"

\* ... and the handler was given what an approvable order needs: the request
\* passes validation and every such call gave the positive answer
Favourable(n, tools, out) ==
    /\ Responded(n, tools, out)
    /\ n = "validate_request" => helpers_validate_po_request(out.st.po_request)[1]
    /\ \A i \in 1..Len(out.calls) :
          out.calls[i].tool \in DecisiveTools \cup ToolsOf("notification")
            => Handled(out.calls[i]).body = "pos"

Answers(n, tools, out) ==
    IF Favourable(n, tools, out) THEN "favourable"
    ELSE IF Responded(n, tools, out) THEN "negative"
    ELSE "failed"

\* the graph runs the handler of the current node and merges what it returns
RunNode(n, tools, out) ==
    /\ pc = "node"
    /\ node = n
    /\ Len(trace) < MaxSteps
    /\ state' = out.st
    /\ trace' = Append(trace, [stage |-> n, decision |-> out.st.final_decision,
                                answers |-> Answers(n, tools, out)])
    /\ lastCall' = [stage |-> n, tools |-> tools, calls |-> out.calls]
    /\ pc' = "branch"
    /\ UNCHANGED <<node, result, routed>>

ValidateRequest ==
    \E llm \in LlmOutcomes :
        RunNode("validate_request", NoTools, validate_po_request(state, llm))

CheckSupplier ==
    \E tools \in get_tools_safe("supplier"), rv \in StageOutcomes, rc \in StageOutcomes :
        RunNode("check_supplier", tools, check_supplier(state, tools, rv, rc))

VerifyBudget ==
    \E tools \in get_tools_safe("budget"), rb \in StageOutcomes, rr \in StageOutcomes :
        RunNode("verify_budget", tools, verify_budget(state, tools, rb, rr))

ProcessApproval ==
    \E tools \in get_tools_safe("approval"), ra \in StageOutcomes, rs \in StageOutcomes :
        RunNode("process_approval", tools, process_approval(state, tools, ra, rs))

CalculatePayment ==
    \E tools \in get_tools_safe("payment"), rp \in StageOutcomes :
        RunNode("calculate_payment", tools, calculate_payment(state, tools, rp))

SendNotifications ==
    \E tools \in get_tools_safe("notification"), re \in NotifyOutcomes, rs \in NotifyOutcomes :
        RunNode("send_notifications", tools, send_notifications(state, tools, re, rs))

\* The conditional edge of the node that has just run: should_continue is
\* called on the merged state and its answer is looked up in the node's edge
\* map.  Branch is the lookup that leads to another node.
Branch ==
    /\ pc = "branch"
    /\ routed' = should_continue(state)
    /\ routed' \in EdgeMap(node) \ {"END"}
    /\ node' = routed'
    /\ pc' = "node"
    /\ lastCall' = NoCalls
    /\ UNCHANGED <<state, result, trace>>

\* the lookup leads to __end__: workflow.ainvoke returns the state and
\* process_po returns it
Return ==
    /\ pc = "branch"
    /\ routed' = should_continue(state)
    /\ routed' = "END" /\ routed' \in EdgeMap(node)
    /\ result' = state
    /\ pc' = "returned"
    /\ UNCHANGED <<state, node, trace, lastCall>>

\* the answer is not a key of the edge map: the lookup faults, process_po
\* catches the fault and returns initial_state with ERROR; po_request is the
\* object the handlers mutated in place
ReturnError ==
    /\ pc = "branch"
    /\ routed' = should_continue(state)
    /\ routed' \notin EdgeMap(node)
    /\ result' = [initial_state(state.po_request)
                    EXCEPT !.final_decision = "ERROR",
                           !.decision_reason = <<"Workflow execution failed", routed'>>,
                           !.errors = <<<<"Workflow execution failed", routed'>>>>]
    /\ pc' = "returned"
    /\ UNCHANGED <<state, node, trace, lastCall>>

Next ==
    \/ Start
    \/ ValidateRequest
    \/ CheckSupplier
    \/ VerifyBudget
    \/ ProcessApproval
    \/ CalculatePayment
    \/ SendNotifications
    \/ Branch
    \/ Return
    \/ ReturnError

Spec == Init /\ [][Next]_vars

\* the event loop runs process_po to completion: every collaborator call
\* returns or raises, so an enabled step is eventually taken
FairSpec == Spec /\ WF_vars(Next)


\* ------------------------------------------------ the router on any state
\* should_continue applied, up to MaxRouterCalls times, to a state whose
\* result blocks, latch, decision and notifications are drawn freely
RouterStates ==
    {[initial_state(ValidRequest) EXCEPT
          !.supplier_validation = sv, !.budget_check = bc, !.approval_status = ap,
          !.payment_plan = pp, !.payment_attempted = pa, !.final_decision = fd,
          !.notifications = nt] :
       sv \in {<<>>, <<"validation", "capacity", "checked_at">>},
       bc \in {<<>>, <<"result", "checked_at">>},
       ap \in {<<>>, <<"result", "processed_at">>},
       pp \in {<<>>, <<"plan">>},
       pa \in BOOLEAN,
       fd \in Decisions \cup {""},
       nt \in {<<>>, <<"email_result">>}}

RouterInit ==
    /\ state \in RouterStates
    /\ pc = "router"
    /\ node = ""
    /\ result = NoResult
    /\ trace = <<>>
    /\ lastCall = NoCalls
    /\ routed = ""

RouterCall ==
    /\ pc = "router"
    /\ Len(trace) < MaxRouterCalls
    /\ routed' = should_continue(state)
    /\ trace' = Append(trace, [stage |-> "should_continue", decision |-> state.final_decision,
                                answers |-> "favourable"])
    /\ UNCHANGED <<state, pc, node, result, lastCall>>

RouterNext == RouterCall

RouterSpec == RouterInit /\ [][RouterNext]_vars

RouterAnswers == {"check_supplier", "verify_budget", "process_approval",
                  "calculate_payment", "send_notifications", "END"}

\* the decision list of the router, rule by rule, on the answer just given
FirstMatchAnswer ==
    /\ routed \in RouterAnswers
    /\ state.supplier_validation = <<>> => routed = "check_supplier"
    /\ state.supplier_validation # <<>> /\ state.budget_check = <<>>
         => routed = "verify_budget"
    /\ state.supplier_validation # <<>> /\ state.budget_check # <<>>
         /\ state.approval_status = <<>>
         => routed = "process_approval"
    /\ state.supplier_validation # <<>> /\ state.budget_check # <<>>
         /\ state.approval_status # <<>>
         => /\ state.payment_plan = <<>> /\ ~state.payment_attempted
                 => routed = "calculate_payment"
            /\ ~(state.payment_plan = <<>> /\ ~state.payment_attempted)
                 => /\ state.final_decision # "" /\ state.notifications = <<>>
                         => routed = "send_notifications"
                    /\ ~(state.final_decision # "" /\ state.notifications = <<>>)
                         => routed = "END"

\* C1: should_continue returns the first match of the six-rule list, exactly
\* one of the six answers for every state, leaves the state as it was, and
\* answers the same when called again on the unchanged state.
C1_RouterFirstMatch ==
    /\ [](pc = "router" /\ trace # <<>> => FirstMatchAnswer)
    /\ [][pc = "router" => /\ state' = state
                           /\ (trace # <<>> => routed' = routed)]_vars

C1_Witness ==
    /\ pc = "router"
    /\ Len(trace) = 2
    /\ routed = "send_notifications"
    /\ state.payment_plan = <<>>
    /\ state.payment_attempted


\* ------------------------------------------------ runs of process_po
Steps == 1..Len(trace)
CheckingStages == {"validate_request", "check_supplier", "verify_budget", "process_approval"}

\* C2: once a stage has left final_decision = REJECTED, no later stage leaves
\* APPROVED or PENDING_APPROVAL, and process_po then returns REJECTED or ERROR.
C2_RejectedNeverRelaxed ==
    /\ \A i, j \in Steps :
          i < j /\ trace[i].decision = "REJECTED"
            => trace[j].decision \notin {"APPROVED", "PENDING_APPROVAL"}
    /\ pc = "returned" /\ (\E i \in Steps : trace[i].decision = "REJECTED")
          => result.final_decision \in {"REJECTED", "ERROR"}

\* C3: when one of the four checking stages leaves ERROR or REJECTED, the run
\* still executes calculate_payment and then send_notifications before it ends.
C3_FailureStillPaysAndNotifies ==
    pc = "returned"
      /\ (\E i \in Steps : /\ trace[i].stage \in CheckingStages
                           /\ trace[i].decision \in {"ERROR", "REJECTED"})
      => \E j, k \in Steps : /\ j < k
                             /\ trace[j].stage = "calculate_payment"
                             /\ trace[k].stage = "send_notifications"

\* C4: after every stage the router's answer is a key of that stage's edge
\* map, so the branch never faults.
C4_AnswerInEdgeMap ==
    pc = "branch" => should_continue(state) \in EdgeMap(node)

\* C5: every run ends, no handler is executed twice, and at most six handlers
\* are executed.
C5_TerminatesNoCycle ==
    /\ [](/\ \A i, j \in Steps : i # j => trace[i].stage # trace[j].stage
          /\ Len(trace) <= 6)
    /\ <>(pc \in {"returned", "raised"})

C5_Witness ==
    /\ pc = "returned"
    /\ Len(trace) = 6
    /\ trace[6].stage = "send_notifications"

\* C6: process_po never raises, and what it returns has a final_decision
\* among the four decisions, a decision_reason and an errors sequence.
C6_AlwaysReturnsDecision ==
    /\ pc # "raised"
    /\ pc = "returned" => /\ result.final_decision \in Decisions
                          /\ result.decision_reason # <<>>
                          /\ Len(result.errors) >= 0

\* the request as the data model wants it before any stage but validation
WellFormed(r) ==
    /\ r.supplier_id \notin {"<absent>", ""}
    /\ r.amount.type = "num" /\ r.amount.v > 0
    /\ r.department \notin {"<absent>", ""}
    /\ r.items.type = "list" /\ r.items.v > 0

\* C7: check_supplier, verify_budget, process_approval and calculate_payment
\* run only on a request with all four required fields well-formed.
C7_NoStageOnInvalidRequest ==
    \A i \in Steps :
        trace[i].stage \in {"check_supplier", "verify_budget", "process_approval",
                            "calculate_payment"}
          => WellFormed(state.po_request)


\* a call of the handler raised, or a tool it requires was not there
CollaboratorRaised(lc) ==
    \/ \E i \in 1..Len(lc.calls) : lc.calls[i].outcome = Raise
    \/ ~(RequiredTools(lc.stage) \subseteq lc.tools.names)

HandlerReturns(stages) == pc = "node" /\ pc' = "branch" /\ node \in stages

\* C8 as stated: in each of the first five handlers a raising collaborator
\* call (or a missing required tool) ends in final_decision = ERROR with one
\* new entry in errors.
C8_RaisingCallGivesError ==
    [][HandlerReturns(Stages \ {"send_notifications"}) /\ CollaboratorRaised(lastCall')
         => /\ state'.final_decision = "ERROR"
            /\ Len(state'.errors) = Len(state.errors) + 1]_vars

\* C8 amended: that holds for check_supplier, verify_budget, process_approval
\* and calculate_payment; in validate_request a raising analysis call is
\* swallowed and leaves final_decision and errors as they were.
C8_RaisingCallGivesErrorButAnalysis ==
    [][/\ HandlerReturns(Stages \ {"validate_request", "send_notifications"})
            /\ CollaboratorRaised(lastCall')
          => /\ state'.final_decision = "ERROR"
             /\ Len(state'.errors) = Len(state.errors) + 1
             /\ SubSeq(state'.errors, 1, Len(state.errors)) = state.errors
       /\ HandlerReturns({"validate_request"}) /\ CollaboratorRaised(lastCall')
          => /\ state'.final_decision = state.final_decision
             /\ state'.errors = state.errors]_vars

C8_Witness ==
    /\ pc = "branch"
    /\ lastCall.stage = "verify_budget"
    /\ Len(lastCall.calls) = 2
    /\ lastCall.calls[2] = Call("reserve_budget", Raise, "")
    /\ state.final_decision = "ERROR"
    /\ state.errors = <<<<"Error during budget verification">>>>

Answered(lc, body) ==
    \E i \in 1..Len(lc.calls) :
        /\ lc.calls[i].tool \in DecisiveTools
        /\ lc.calls[i].outcome # Raise
        /\ Handled(lc.calls[i]).mapping
        /\ Handled(lc.calls[i]).body = body
AllAnswered(lc) ==
    \A i \in 1..Len(lc.calls) :
        lc.calls[i].outcome # Raise /\ Handled(lc.calls[i]).mapping

\* C9: a response with error: true makes the stage set ERROR, never REJECTED;
\* a business-negative response (valid, capacity_ok, available false) with no
\* error makes it set REJECTED.
C9_ErrorResponseGivesError ==
    /\ pc = "branch"
         /\ lastCall.stage \in {"check_supplier", "verify_budget",
                                "process_approval", "calculate_payment"}
         /\ Answered(lastCall, "err")
         => state.final_decision = "ERROR"
    /\ pc = "branch"
         /\ lastCall.stage \in {"check_supplier", "verify_budget"}
         /\ AllAnswered(lastCall)
         /\ ~Answered(lastCall, "err")
         /\ Answered(lastCall, "neg")
         => state.final_decision = "REJECTED"

\* a notification tool raised, or there was no notification tool
NotificationFailed(lc) ==
    \/ \E i \in 1..Len(lc.calls) : lc.calls[i].outcome = Raise
    \/ lc.tools.names = {}

\* C10: when send_notifications fails, process_po returns the final_decision
\* that send_notifications started with.
C10_NotificationFailureKeepsDecision ==
    pc = "returned" /\ lastCall.stage = "send_notifications"
        /\ NotificationFailed(lastCall)
      => /\ Len(trace) >= 2
         /\ result.final_decision = trace[Len(trace) - 1].decision

\* the positions of the trace at which a stage ran
RunsOf(stage) == {i \in Steps : trace[i].stage = stage}

\* C11: payment_attempted is false until calculate_payment has run, true from
\* the moment it returns on every way out (plan, error response, exception),
\* never reset, and the payment collaborator is called at most once in a run.
C11_PaymentAttemptedLatch ==
    /\ [](state.payment_attempted <=> RunsOf("calculate_payment") # {})
    /\ [](Cardinality(RunsOf("calculate_payment")) <= 1)
    /\ [](lastCall.stage = "calculate_payment" => Len(lastCall.calls) <= 1)
    /\ [][state.payment_attempted => state'.payment_attempted]_vars

\* the payment stage failed, the latch is set and the run went on to notify
C11_Witness ==
    /\ pc = "branch"
    /\ node = "send_notifications"
    /\ state.payment_attempted
    /\ state.payment_plan = <<>>
    /\ Cardinality(RunsOf("calculate_payment")) = 1

\* ------------------------------------------- one handler on any state
\* Each handler is a method that takes any workflow state: here one handler
\* is applied once to a state whose decision, blocks, latch and identifier
\* are drawn freely (a REJECTED or ERROR decision comes with an entry in
\* errors); the trace starts with the decision the earlier stages left.
StageRequests == {ValidRequest, [ValidRequest EXCEPT !.po_id = "PO-CALLER"]}

StageStates ==
    {[initial_state(req) EXCEPT
          !.po_id = id,
          !.supplier_validation = sv, !.budget_check = bc, !.approval_status = ap,
          !.payment_plan = pp, !.payment_attempted = pa,
          !.final_decision = fd,
          !.decision_reason = IF fd = "" THEN <<>> ELSE <<"earlier reason">>,
          !.notifications = nt,
          !.errors = IF fd \in {"REJECTED", "ERROR"} THEN <<<<"earlier error">>>> ELSE <<>>] :
       req \in StageRequests,
       id \in {"", generate_po_id},
       sv \in {<<>>, <<"validation", "capacity", "checked_at">>},
       bc \in {<<>>, <<"result", "checked_at">>},
       ap \in {<<>>, <<"result", "processed_at">>},
       pp \in {<<>>, <<"plan">>},
       pa \in BOOLEAN,
       fd \in Decisions \cup {""},
       nt \in {<<>>, <<"email_result">>}}

StageInit ==
    /\ state \in StageStates
    /\ pc = "node"
    /\ node \in Stages
    /\ result = NoResult
    /\ trace = <<[stage |-> "earlier", decision |-> state.final_decision, answers |-> "favourable"]>>
    /\ lastCall = NoCalls
    /\ routed = ""

StageNext ==
    \/ ValidateRequest
    \/ CheckSupplier
    \/ VerifyBudget
    \/ ProcessApproval
    \/ CalculatePayment
    \/ SendNotifications

StageSpec == StageInit /\ [][StageNext]_vars

\* the payment collaborator answered with a complete plan
PlanProduced(lc) ==
    /\ Len(lc.calls) = 1
    /\ lc.calls[1].outcome # Raise
    /\ Handled(lc.calls[1]).mapping
    /\ Handled(lc.calls[1]).body = "pos"

\* C12: calculate_payment leaves final_decision and decision_reason as they
\* were when a plan is produced, and sets final_decision = ERROR when the
\* computation fails (error response or exception), whatever the decision
\* was before, REJECTED included; it makes no other change to the decision.
C12_PaymentTouchesDecisionOnlyOnFailure ==
    [][HandlerReturns({"calculate_payment"})
         => /\ PlanProduced(lastCall')
                => /\ state'.final_decision = state.final_decision
                   /\ state'.decision_reason = state.decision_reason
                   /\ state'.payment_plan # <<>>
            /\ ~PlanProduced(lastCall') => state'.final_decision = "ERROR"
            /\ state'.final_decision \in {state.final_decision, "ERROR"}]_vars

\* the payment stage failed on a state an earlier stage had left REJECTED
C12_Witness ==
    /\ pc = "branch"
    /\ node = "calculate_payment"
    /\ Len(trace) = 2
    /\ trace[1].decision = "REJECTED"
    /\ state.final_decision = "ERROR"
    /\ state.decision_reason = <<"Payment plan error", "message">>
    /\ state.errors = <<<<"earlier error">>, <<"Payment plan error", "message">>>>
    /\ state.supplier_validation # <<>>

\* C13: a run in which every stage was given the favourable answers (valid
\* request, supplier valid with capacity, budget available, auto_approve, a
\* payment plan, notifications delivered) executes all six stages and returns
\* final_decision = APPROVED with a payment_plan and non-empty notifications.
C13_HappyPathApproved ==
    pc = "returned" /\ (\A i \in Steps : trace[i].answers = "favourable")
      => /\ Len(trace) = 6
         /\ result.final_decision = "APPROVED"
         /\ result.payment_plan # <<>>
         /\ result.notifications # <<>>

C13_Witness ==
    /\ pc = "returned"
    /\ \A i \in Steps : trace[i].answers = "favourable"
    /\ trace[Len(trace)].stage = "send_notifications"
    /\ result.final_decision = "APPROVED"
    /\ result.notifications = <<"email_result", "slack_result">>

\* validate_supplier answered valid: false with its message, and
\* check_supplier_capacity answered without error
SupplierNotFound(lc) ==
    /\ lc.stage = "check_supplier"
    /\ Len(lc.calls) = 2
    /\ AllAnswered(lc)
    /\ Handled(lc.calls[1]).body = "neg"
    /\ Handled(lc.calls[2]).body # "err"

InReason(text, st) == \E i \in 1..Len(st.decision_reason) : st.decision_reason[i] = text

C15_PoIdAssignedOnce ==
    [][/\ HandlerReturns({"validate_request"})
            => /\ state.po_request.po_id # "<absent>"
                    => /\ state'.po_id = state.po_request.po_id
                       /\ state'.po_request.po_id = state.po_request.po_id
               /\ state.po_request.po_id = "<absent>"
                    => /\ state'.po_id = generate_po_id
                       /\ state'.po_request.po_id = generate_po_id
       /\ HandlerReturns(Stages \ {"validate_request"})
            => /\ state'.po_id = state.po_id
               /\ state'.po_request.po_id = state.po_request.po_id]_vars

IsPrefix(s, t) == Len(s) <= Len(t) /\ SubSeq(t, 1, Len(s)) = s

\* C16: errors only grows during a run, and every entry a stage appended is
\* still there, in the order appended, in the errors of what process_po returns.
C16_ErrorsAppendOnly ==
    /\ [][IsPrefix(state.errors, state'.errors)]_vars
    /\ [](pc = "returned" => IsPrefix(state.errors, result.errors))

\* the lookup of the router's answer in the edge map of the last node faulted
Faulted == pc = "returned" /\ routed \notin EdgeMap(node)

\* C17: when the run faults outside a handler, process_po returns ERROR with
\* the fault message and the partial state: the po_id and the result blocks
\* recorded before the fault are in what it returns.
C17_FaultKeepsPartialState ==
    Faulted
      => /\ result.final_decision = "ERROR"
         /\ result.decision_reason = <<"Workflow execution failed", routed>>
         /\ result.po_id = state.po_id
         /\ result.supplier_validation = state.supplier_validation
         /\ result.budget_check = state.budget_check
         /\ result.approval_status = state.approval_status
         /\ result.payment_plan = state.payment_plan

Blocks == {"supplier_validation", "budget_check", "approval_status",
           "payment_plan", "notifications"}

\* the stage that owns a result block
Owner(block) ==
    CASE block = "supplier_validation" -> "check_supplier"
      [] block = "budget_check" -> "verify_budget"
      [] block = "approval_status" -> "process_approval"
      [] block = "payment_plan" -> "calculate_payment"
      [] block = "notifications" -> "send_notifications"

\* C18: a handler leaves every result block it does not own exactly as it
\* found it, empty or not: each block is written by its owning stage only,
\* and no other stage changes or clears it.
C18_BlocksWrittenByOwnerOnly ==
    [][HandlerReturns(Stages)
         => \A b \in Blocks : Owner(b) # node => state'[b] = state[b]]_vars

\* check_supplier has run on a state that already held the four other blocks
C18_Witness ==
    /\ pc = "branch"
    /\ node = "check_supplier"
    /\ state.supplier_validation = <<"validation", "capacity", "checked_at">>
    /\ state.budget_check = <<"result", "checked_at">>
    /\ state.approval_status = <<"result", "processed_at">>
    /\ state.payment_plan = <<"plan">>
    /\ state.notifications = <<"email_result">>
    /\ state.final_decision = "REJECTED"
    /\ trace[1].decision = "APPROVED"

\* the order in which _build_workflow's edges chain the stages
StageOrder == <<"validate_request", "check_supplier", "verify_budget",
                "process_approval", "calculate_payment", "send_notifications">>

\* C19: the stages executed so far are a prefix of the fixed sequence, one
\* handler at a time; send_notifications is entered only with payment attempted
\* and final_decision set, calculate_payment only with approval_status recorded.
C19_StagesFormPrefix ==
    /\ Len(trace) <= Len(StageOrder)
    /\ \A i \in Steps : trace[i].stage = StageOrder[i]
    /\ pc = "node" => Len(trace) < Len(StageOrder) /\ node = StageOrder[Len(trace) + 1]
    /\ pc = "node" /\ node = "send_notifications"
         => state.payment_attempted /\ state.final_decision # ""
    /\ pc = "node" /\ node = "calculate_payment" => state.approval_status # <<>>

\* send_notifications is about to run after a payment stage that produced no plan
C19_Witness ==
    /\ pc = "node"
    /\ node = "send_notifications"
    /\ Len(trace) = 5
    /\ state.payment_plan = <<>>
    /\ state.payment_attempted
    /\ state.final_decision = "ERROR"

\* --------------------------------------------- payment policy (payment_server.py)
\* Scores and percentages are exact fractions num/den with den > 0; a score
\* is a multiple of 1/ScoreScale, the two decimals risk_score is rounded to.
ScoreScale == 100
Rat(n, d) == [num |-> n, den |-> d]
Leq(a, b) == a.num * b.den <= b.num * a.den
Less(a, b) == a.num * b.den < b.num * a.den
Same(a, b) == a.num * b.den = b.num * a.den

\* _clamp without the clamping
_clamp_Identity(v, lo, hi) == v

\* max(lo, min(hi, v)) for whole lo and hi
_clamp(v, lo, hi) ==
    LET m == IF Less(v, Rat(hi, 1)) THEN v ELSE Rat(hi * v.den, v.den)
    IN  IF Less(Rat(lo, 1), m) THEN m ELSE Rat(lo * v.den, v.den)

\* y0 + (v - x0) / (x1 - x0) * (y1 - y0) for whole x0 < x1, y0, y1
_lerp(v, x0, x1, y0, y1) ==
    IF x1 = x0 THEN Rat(y0, 1)
    ELSE Rat(y0 * v.den * (x1 - x0) + (v.num - x0 * v.den) * (y1 - y0),
             v.den * (x1 - x0))

_upfront_percent(score) ==
    LET s == _clamp(score, 0, 100)
    IN  IF Leq(Rat(80, 1), s) THEN Rat(100, 1)
        ELSE IF Leq(Rat(60, 1), s) THEN _lerp(s, 60, 79, 70, 85)
        ELSE IF Leq(Rat(40, 1), s) THEN _lerp(s, 40, 59, 40, 60)
        ELSE _lerp(s, 0, 39, 0, 30)

\* _risk_band with strict comparisons
_risk_band_Strict(score) ==
    IF Less(Rat(80, 1), score) THEN "LOW"
    ELSE IF Less(Rat(60, 1), score) THEN "MEDIUM"
    ELSE IF Less(Rat(40, 1), score) THEN "HIGH"
    ELSE "VERY_HIGH"

_risk_band(score) ==
    IF Leq(Rat(80, 1), score) THEN "LOW"
    ELSE IF Leq(Rat(60, 1), score) THEN "MEDIUM"
    ELSE IF Leq(Rat(40, 1), score) THEN "HIGH"
    ELSE "VERY_HIGH"

\* what the policy gives for a score
Policy(score) ==
    [upfront_percent |-> _upfront_percent(score), band |-> _risk_band(score)]

\* the scores the policy is applied to, as grid points
ScoreGrid == (0 - ScoreOver) * ScoreScale .. (100 + ScoreOver) * ScoreScale
Score(k) == Rat(k, ScoreScale)

\* The policy is computed for a score, and then again for a higher one.
PolicyInit ==
    /\ state \in {[score |-> k] : k \in ScoreGrid}
    /\ pc = "policy"
    /\ node = ""
    /\ result = [upfront_percent |-> Rat(0, 1), band |-> ""]
    /\ trace = <<>>
    /\ lastCall = NoCalls
    /\ routed = ""

PolicyCompute ==
    /\ pc = "policy"
    /\ result' = Policy(Score(state.score))
    /\ pc' = "computed"
    /\ UNCHANGED <<state, node, trace, lastCall, routed>>

PolicyRaise ==
    /\ pc = "computed"
    /\ \E d \in 1..MaxScoreStep :
          /\ state.score + d \in ScoreGrid
          /\ state' = [score |-> state.score + d]
    /\ result' = Policy(Score(state'.score))
    /\ UNCHANGED <<pc, node, trace, lastCall, routed>>

PolicyNext == PolicyCompute \/ PolicyRaise

PolicySpec == PolicyInit /\ [][PolicyNext]_vars

\* C20: for every score, clamped to [0, 100], _upfront_percent lies in
\* [0, 100], and it does not decrease when the score grows, across the band
\* boundaries at 40, 60 and 80 and inside the gaps (39,40), (59,60), (79,80).
C20_UpfrontPercentMonotone ==
    /\ [](pc = "computed" => /\ Leq(Rat(0, 1), result.upfront_percent)
                             /\ Leq(result.upfront_percent, Rat(100, 1)))
    /\ [][pc = "computed" /\ pc' = "computed"
            => /\ state'.score > state.score
               /\ Leq(result.upfront_percent, result'.upfront_percent)]_vars

\* a score inside the gap (59, 60): the HIGH segment read beyond its upper end
C20_Witness ==
    /\ pc = "computed"
    /\ 59 * ScoreScale < state.score /\ state.score < 60 * ScoreScale
    /\ Less(Rat(60, 1), result.upfront_percent)
    /\ Less(result.upfront_percent, Rat(70, 1))

\* the score given as a whole number of points
ScoreIs(points) == pc = "computed" /\ state.score = points * ScoreScale

\* C21: _upfront_percent gives 0 at score 0, 70 at 60, 100 at 80 and at 100,
\* and a score of exactly 60 is in band MEDIUM.
C21_PolicyBoundaryValues ==
    /\ ScoreIs(0) => Same(result.upfront_percent, Rat(0, 1))
    /\ ScoreIs(60) => /\ Same(result.upfront_percent, Rat(70, 1))
                      /\ result.band = "MEDIUM"
    /\ ScoreIs(80) => Same(result.upfront_percent, Rat(100, 1))
    /\ ScoreIs(100) => Same(result.upfront_percent, Rat(100, 1))

C21_Witness ==
    /\ ScoreIs(60)
    /\ result.band = "MEDIUM"
    /\ Same(result.upfront_percent, Rat(70, 1))

Between(lo, x, hi) == Leq(Rat(lo, 1), x) /\ Leq(x, Rat(hi, 1))

Times(a, b) == Rat(a.num * b.num, a.den * b.den)
Minus(a, b) == Rat(a.num * b.den - b.num * a.den, a.den * b.den)
Cents(c) == Rat(c, 100)

\* round(x, 2) of an amount x >= 0, as a whole number of cents.  An amount
\* half-way between two cents goes down or up (tie = 0 or 1): which way the
\* float goes depends on its binary representation.
Ties == {0, 1}
Round2(x, tie) ==
    LET n == x.num * 100
        q == n \div x.den
        r == n % x.den
    IN  IF 2 * r < x.den THEN q
        ELSE IF 2 * r > x.den THEN q + 1
        ELSE q + tie

\* the plan with a balance rounded from its own percentage
_recommend_payment_plan_IndependentBalance(total, score, ties) ==
    LET upfront_pct == _upfront_percent(score)
        upfront_amt == Round2(Times(total, Times(upfront_pct, Rat(1, 100))), ties[1])
        balance_amt == Round2(Times(total,
                                    Times(Minus(Rat(100, 1), upfront_pct), Rat(1, 100))),
                              ties[2])
    IN  [upfront_percent |-> upfront_pct,
         upfront_amount |-> upfront_amt,
         balance_amount |-> balance_amt]

\* the policy and amounts entries of the plan, amounts in cents; total is
\* total_in_inr of the base amount and score the risk_score of the supplier
_recommend_payment_plan(total, score, ties) ==
    LET upfront_pct == _upfront_percent(score)
        upfront_amt == Round2(Times(total, Times(upfront_pct, Rat(1, 100))), ties[1])
        balance_amt == Round2(Minus(total, Cents(upfront_amt)), ties[2])
    IN  [upfront_percent |-> upfront_pct,
         upfront_amount |-> upfront_amt,
         balance_amount |-> balance_amt]

\* the risk scores plans are computed for: every half point of [0, 100]
PlanScoreStride == 50
PlanScores == {k \in 0 .. 100 * ScoreScale : k % PlanScoreStride = 0}

PlanInit ==
    /\ state \in [score : PlanScores, total_cents : 0 .. MaxTotalCents]
    /\ pc = "plan"
    /\ node = ""
    /\ result = [upfront_percent |-> Rat(0, 1), upfront_amount |-> 0, balance_amount |-> 0]
    /\ trace = <<>>
    /\ lastCall = NoCalls
    /\ routed = ""

PlanCompute ==
    /\ pc = "plan"
    /\ \E ties \in [1..2 -> Ties] :
          result' = _recommend_payment_plan(Cents(state.total_cents),
                                            Score(state.score), ties)
    /\ pc' = "planned"
    /\ UNCHANGED <<state, node, trace, lastCall, routed>>

PlanNext == PlanCompute

PlanSpec == PlanInit /\ [][PlanNext]_vars

\* C23: in every plan, for every score and total, upfront_amount plus
\* balance_amount is the plan's total, to the cent.
C23_UpfrontPlusBalanceIsTotal ==
    pc = "planned" => result.upfront_amount + result.balance_amount = state.total_cents

\* half of one cent: the upfront amount was rounded up and the balance is zero
C23_Witness ==
    /\ pc = "planned"
    /\ state.total_cents = 1
    /\ Same(result.upfront_percent, Rat(50, 1))
    /\ result.upfront_amount = 1
    /\ result.balance_amount = 0

\* ------------------------------------------------- supplier risk score
\* (src/mcp_servers/payment_server.py, _compute_supplier_risk_score)
\* A supplier's history is the aggregates the six queries return: whole
\* quantities and counts.  A count of rows with a property is at most the
\* count of rows; a received quantity may exceed the ordered one.

Plus(a, b) == Rat(a.num * b.den + b.num * a.den, a.den * b.den)
Max(a, b) == IF a < b THEN b ELSE a

\* round(x, digits) of x >= 0 as a whole number of 1/scale, scale = 10^digits;
\* a value half-way between two grid points goes down or up (tie = 0 or 1)
Round(x, scale, tie) ==
    LET whole == x.num \div x.den
        n == (x.num % x.den) * scale
        q == n \div x.den
        r == n % x.den
    IN  whole * scale + (IF 2 * r < x.den THEN q
                         ELSE IF 2 * r > x.den THEN q + 1
                         ELSE q + tie)

\* the directions round(x, digits) may take
TiesOf(x, scale) ==
    IF 2 * (((x.num % x.den) * scale) % x.den) = x.den THEN Ties ELSE {0}

fulfillment(h) ==
    IF h.ordered_qty = 0 THEN Rat(1, 1)
    ELSE _clamp(Rat(h.received_qty, Max(h.ordered_qty, 1)), 0, 1)

ontime_rate(h) ==
    IF h.total_grn = 0 THEN Rat(1, 1)
    ELSE _clamp(Rat(h.on_time, Max(h.total_grn, 1)), 0, 1)

quality_rate(h) ==
    IF h.q_total = 0 THEN Rat(1, 1)
    ELSE _clamp(Rat(h.q_ok, Max(h.q_total, 1)), 0, 1)

inv_rej_rate(h) ==
    IF h.inv_total = 0 THEN Rat(0, 1)
    ELSE _clamp(Rat(h.inv_rej, Max(h.inv_total, 1)), 0, 1)

\* the payment failure rate defaulting to 1.0, as the delivery ratios do
pay_fail_rate_DefaultOne(h) ==
    IF h.pay_total = 0 THEN Rat(1, 1)
    ELSE _clamp(Rat(h.pay_fail, Max(h.pay_total, 1)), 0, 1)

pay_fail_rate(h) ==
    IF h.pay_total = 0 THEN Rat(0, 1)
    ELSE _clamp(Rat(h.pay_fail, Max(h.pay_total, 1)), 0, 1)

\* the unrounded score
score(h) ==
    Plus(Times(Rat(35, 1), fulfillment(h)),
    Plus(Times(Rat(25, 1), ontime_rate(h)),
    Plus(Times(Rat(20, 1), quality_rate(h)),
    Plus(Times(Rat(10, 1), Minus(Rat(1, 1), inv_rej_rate(h))),
         Times(Rat(10, 1), Minus(Rat(1, 1), pay_fail_rate(h)))))))

\* what the five ratios and the score round to
RiskTies(h) ==
    {<<t1, t2, t3, t4, t5, t6>> :
        t1 \in TiesOf(score(h), 100),
        t2 \in TiesOf(fulfillment(h), 1000),
        t3 \in TiesOf(ontime_rate(h), 1000),
        t4 \in TiesOf(quality_rate(h), 1000),
        t5 \in TiesOf(inv_rej_rate(h), 1000),
        t6 \in TiesOf(pay_fail_rate(h), 1000)}

\* risk_score in hundredths of a point, the ratios of metrics in thousandths
_compute_supplier_risk_score(h, ties) ==
    [error |-> FALSE,
     message |-> "",
     risk_score |-> Round(score(h), 100, ties[1]),
     risk_band |-> _risk_band(score(h)),
     metrics |-> [fulfillment_ratio |-> Round(fulfillment(h), 1000, ties[2]),
                  ontime_rate |-> Round(ontime_rate(h), 1000, ties[3]),
                  quality_ok_rate |-> Round(quality_rate(h), 1000, ties[4]),
                  invoice_rejection_rate |-> Round(inv_rej_rate(h), 1000, ties[5]),
                  payment_failure_rate |-> Round(pay_fail_rate(h), 1000, ties[6])]]

RiskError(msg) ==
    [error |-> TRUE, message |-> msg, risk_score |-> 0, risk_band |-> "",
     metrics |-> [fulfillment_ratio |-> 0, ontime_rate |-> 0, quality_ok_rate |-> 0,
                  invoice_rejection_rate |-> 0, payment_failure_rate |-> 0]]

\* the aggregate queries, in the order they are executed; one of them may
\* raise (failing names it, "none" when all six answer)
Queries == {"ordered_q", "received_q", "ontime_q", "quality_q", "inv_q", "pay_q"}

\* the tool: an exception of a query leaves _compute_supplier_risk_score and
\* is caught by the tool's except clause
compute_supplier_risk(supplier_id, h, failing, ties) ==
    IF supplier_id = "" THEN RiskError("supplier_id is required")
    ELSE IF failing # "none" THEN RiskError("compute_supplier_risk failed")
    ELSE _compute_supplier_risk_score(h, ties)

OrderedQuantities == 0 .. MaxCount \cup {LargeQty}
ReceivedQuantities == 0 .. MaxCount \cup {LargeQty - 1}
Histories ==
    {h \in [ordered_qty : OrderedQuantities, received_qty : ReceivedQuantities,
            total_grn : 0 .. MaxCount, on_time : 0 .. MaxCount,
            q_total : 0 .. MaxCount, q_ok : 0 .. MaxCount,
            inv_total : 0 .. MaxCount, inv_rej : 0 .. MaxCount,
            pay_total : 0 .. MaxCount, pay_fail : 0 .. MaxCount] :
        /\ h.q_total = h.total_grn
        /\ h.on_time <= h.total_grn
        /\ h.q_ok <= h.q_total
        /\ h.inv_rej <= h.inv_total
        /\ h.pay_fail <= h.pay_total}

RiskInit ==
    /\ state \in Histories
    /\ pc = "risk"
    /\ node = "none"
    /\ result = RiskError("")
    /\ trace = <<>>
    /\ lastCall = NoCalls
    /\ routed = ""

\* compute_supplier_risk is called for a supplier; node names the query that
\* raised and routed the supplier id
RiskCompute ==
    /\ pc = "risk"
    /\ \E supplier_id \in {"", "SUP001"}, failing \in Queries \cup {"none"} :
          /\ supplier_id = "" => failing = "none"
          /\ \E ties \in RiskTies(state) :
                result' = compute_supplier_risk(supplier_id, state, failing, ties)
          /\ node' = failing
          /\ routed' = supplier_id
    /\ pc' = "scored"
    /\ UNCHANGED <<state, trace, lastCall>>

RiskNext == RiskCompute

RiskSpec == RiskInit /\ [][RiskNext]_vars

\* n / d limited to [0, 1], and dflt when there is nothing to divide by
ClampedRatio(n, d, dflt) ==
    IF d = 0 THEN Rat(dflt, 1)
    ELSE IF n < 0 THEN Rat(0, 1)
    ELSE IF n > d THEN Rat(1, 1)
    ELSE Rat(n, d)

\* 35*fulfillment + 25*on_time + 20*quality_ok + 10*(1 - invoice_rejection)
\* + 10*(1 - payment_failure) over a common denominator
WeightedScore(f, o, q, i, p) ==
    LET d == f.den * o.den * q.den * i.den * p.den
    IN  Rat(35 * f.num * (d \div f.den) + 25 * o.num * (d \div o.den)
            + 20 * q.num * (d \div q.den) + 10 * (i.den - i.num) * (d \div i.den)
            + 10 * (p.den - p.num) * (d \div p.den), d)

\* the band of a reported score, in hundredths of a point
BandOf(hundredths) ==
    IF hundredths >= 80 * ScoreScale THEN "LOW"
    ELSE IF hundredths >= 60 * ScoreScale THEN "MEDIUM"
    ELSE IF hundredths >= 40 * ScoreScale THEN "HIGH"
    ELSE "VERY_HIGH"

Scored == pc = "scored" /\ ~result.error

\* the reported score is in [0, 100] and is the weighted sum of the clamped
\* ratios, rounded to 2 decimals
C24_ScoreIsWeightedSum ==
    Scored =>
        /\ result.risk_score \in 0 .. 100 * ScoreScale
        /\ \E tie \in Ties :
              result.risk_score =
                  Round(WeightedScore(
                            ClampedRatio(state.received_qty, state.ordered_qty, 1),
                            ClampedRatio(state.on_time, state.total_grn, 1),
                            ClampedRatio(state.q_ok, state.q_total, 1),
                            ClampedRatio(state.inv_rej, state.inv_total, 0),
                            ClampedRatio(state.pay_fail, state.pay_total, 0)),
                        100, tie)

\* C24: for every combination of historical aggregates the risk score is in
\* [0, 100] and equals 35*fulfillment + 25*on_time + 20*quality_ok
\* + 10*(1 - invoice_rejection) + 10*(1 - payment_failure) with every ratio
\* clamped to [0, 1], and the score maps to exactly one band: >= 80 LOW,
\* >= 60 MEDIUM, >= 40 HIGH, otherwise VERY_HIGH.
C24_ScoreAndBand ==
    /\ C24_ScoreIsWeightedSum
    /\ Scored => result.risk_band = BandOf(result.risk_score)

\* a score reported as 80.0 with band MEDIUM
C24_ScoreOfOneBandBandOfAnother ==
    /\ Scored
    /\ state.ordered_qty = LargeQty /\ state.received_qty = LargeQty - 1
    /\ result.risk_score = 80 * ScoreScale
    /\ result.risk_band = "MEDIUM"

NoHistory ==
    /\ state.ordered_qty = 0 /\ state.received_qty = 0
    /\ state.total_grn = 0 /\ state.q_total = 0
    /\ state.inv_total = 0 /\ state.pay_total = 0

\* C25: a ratio whose denominator is zero is 1.0 for fulfillment, on-time
\* and quality-ok and 0.0 for invoice-rejection and payment-failure, each
\* whatever the other aggregates are; a supplier with no history at all gets
\* score 100 and band LOW.
C25_ZeroDenominatorDefaults ==
    Scored =>
        /\ state.ordered_qty = 0 => result.metrics.fulfillment_ratio = 1000
        /\ state.total_grn = 0 => result.metrics.ontime_rate = 1000
        /\ state.q_total = 0 => result.metrics.quality_ok_rate = 1000
        /\ state.inv_total = 0 => result.metrics.invoice_rejection_rate = 0
        /\ state.pay_total = 0 => result.metrics.payment_failure_rate = 0
        /\ NoHistory => /\ result.risk_score = 100 * ScoreScale
                        /\ result.risk_band = "LOW"

\* nothing ordered and nothing paid, while deliveries and invoices exist:
\* two ratios are defaults, the others come from their aggregates
C25_Witness ==
    /\ Scored
    /\ state.ordered_qty = 0 /\ state.received_qty = 1
    /\ state.pay_total = 0
    /\ state.total_grn = 2 /\ state.on_time = 1 /\ state.q_ok = 2
    /\ state.inv_total = 1 /\ state.inv_rej = 1
    /\ result.metrics = [fulfillment_ratio |-> 1000, ontime_rate |-> 500,
                         quality_ok_rate |-> 1000, invoice_rejection_rate |-> 1000,
                         payment_failure_rate |-> 0]
    /\ result.risk_score = 7750

\* the ratio of metrics an aggregate query feeds, and that ratio's
\* zero-denominator default in thousandths
AffectedRatio(query) ==
    CASE query \in {"ordered_q", "received_q"} -> "fulfillment_ratio"
      [] query = "ontime_q" -> "ontime_rate"
      [] query = "quality_q" -> "quality_ok_rate"
      [] query = "inv_q" -> "invoice_rejection_rate"
      [] query = "pay_q" -> "payment_failure_rate"

DefaultOf(ratio) ==
    IF ratio \in {"fulfillment_ratio", "ontime_rate", "quality_ok_rate"} THEN 1000 ELSE 0

\* C26: when one of the aggregate queries fails, the risk computation is not
\* aborted: a score and a band are still returned, and the ratio the query
\* feeds is its zero-denominator default.
C26_QueryFailureDegrades ==
    pc = "scored" /\ node \in Queries =>
        /\ ~result.error
        /\ result.risk_band \in {"LOW", "MEDIUM", "HIGH", "VERY_HIGH"}
        /\ result.metrics[AffectedRatio(node)] = DefaultOf(AffectedRatio(node))

\* the payments query raised for a supplier with deliveries on record, and
\* the tool answered with an error and no score
C26_QueryFailureAborts ==
    /\ pc = "scored" /\ node = "pay_q"
    /\ state.total_grn > 0
    /\ result.error /\ result.message = "compute_supplier_risk failed"
    /\ result.risk_band = ""

\* ------------------------------------------- PO identifier resolution
\* (src/mcp_servers/payment_server.py, _map_request_to_po and the tools)
\* A reference is an integer n (type "int") or the text prefix + digits of n
\* (type "str"); a supplier id is a text or absent.

RequestCodeFloor == 10000000
Timestamp == 20250822
Prefixes == {"", "PO-", "po-", " PO-", "REQ-"}
Numbers == (0 - 1) .. (MaxKey + 1) \cup {Timestamp}
IntRef(n) == [type |-> "int", prefix |-> "", n |-> n]
StrRef(prefix, n) == [type |-> "str", prefix |-> prefix, n |-> n]
References == {IntRef(n) : n \in Numbers} \cup {StrRef(p, n) : p \in Prefixes, n \in Numbers}

NoSupplierId == "<absent>"
SupplierRefs == {NoSupplierId, "", "SUP001", "SUP002", "SUP003", "SUP999", " sup002 ", "SUP777"}

\* s.strip().upper() of the texts above
StripUpper(s) ==
    CASE s = "po-" -> "PO-"
      [] s = " PO-" -> "PO-"
      [] s = " sup002 " -> "SUP002"
      [] OTHER -> s

\* int(po_ref): the integer itself, the number a text of digits denotes, and
\* an exception (raises) for any other text
IntOf(po_ref) ==
    IF po_ref.type = "int" \/ po_ref.prefix = ""
    THEN [raises |-> FALSE, v |-> po_ref.n]
    ELSE [raises |-> TRUE, v |-> 0]

_looks_like_request_code(po_ref) ==
    IF po_ref.type = "str" /\ StripUpper(po_ref.prefix) = "PO-" THEN TRUE
    ELSE IF IntOf(po_ref).raises THEN FALSE
    ELSE IntOf(po_ref).v > RequestCodeFloor

_STATIC_PO_MAP == [SUP001 |-> 1, SUP002 |-> 2, SUP003 |-> 3, SUP999 |-> 4]

\* an optional key: None, or the integer v
None == [none |-> TRUE, v |-> 0]
Key(v) == [none |-> FALSE, v |-> v]
Falsy(pid) == pid.none \/ pid.v = 0

_map_request_to_po(po_ref, supplier_id) ==
    IF ~IntOf(po_ref).raises THEN Key(IntOf(po_ref).v)
    ELSE IF /\ _looks_like_request_code(po_ref)
            /\ supplier_id \notin {NoSupplierId, ""}
            /\ StripUpper(supplier_id) \in DOMAIN _STATIC_PO_MAP
            /\ _STATIC_PO_MAP[StripUpper(supplier_id)] # 0
         THEN Key(_STATIC_PO_MAP[StripUpper(supplier_id)])
         ELSE None

\* stored is the set of po_id values of PurchaseOrders
_po_exists(db_po_id, stored) == db_po_id \in stored

ToolError(msg, pid) == [error |-> TRUE, message |-> msg, po_id |-> pid]
\* the base amount or the plan of the PO: its po_id is the key used
ToolAnswer(pid) == [error |-> FALSE, message |-> "", po_id |-> pid]

\* without the database settings _po_exists raises in _get_db
calculate_base_payment(po_id, supplier_id, stored, missing_env) ==
    LET pid == _map_request_to_po(po_id, supplier_id)
    IN  IF Falsy(pid) THEN ToolError("Cannot resolve", 0)
        ELSE IF missing_env THEN ToolError("calculate_base_payment failed", 0)
        ELSE IF ~_po_exists(pid.v, stored) THEN ToolError("not found", pid.v)
        ELSE ToolAnswer(pid.v)

recommend_payment_plan(po_id, supplier_id, stored, missing_env) ==
    IF missing_env THEN ToolError("Missing required environment variables", 0)
    ELSE LET pid == _map_request_to_po(po_id, supplier_id)
         IN  IF Falsy(pid) THEN ToolError("Cannot resolve", 0)
             ELSE IF ~_po_exists(pid.v, stored) THEN ToolError("not found", pid.v)
             ELSE ToolAnswer(pid.v)

ResolveInit ==
    /\ state \in [po_id : References, supplier_id : SupplierRefs,
                  stored : SUBSET (1 .. MaxKey), missing_env : BOOLEAN]
    /\ pc = "resolve"
    /\ node = ""
    /\ result = ToolError("", 0)
    /\ trace = <<>>
    /\ lastCall = NoCalls
    /\ routed = ""

CallBasePayment ==
    /\ pc = "resolve"
    /\ result' = calculate_base_payment(state.po_id, state.supplier_id,
                                        state.stored, state.missing_env)
    /\ node' = "calculate_base_payment"
    /\ pc' = "resolved"
    /\ UNCHANGED <<state, trace, lastCall, routed>>

CallRecommendPlan ==
    /\ pc = "resolve"
    /\ result' = recommend_payment_plan(state.po_id, state.supplier_id,
                                        state.stored, state.missing_env)
    /\ node' = "recommend_payment_plan"
    /\ pc' = "resolved"
    /\ UNCHANGED <<state, trace, lastCall, routed>>

ResolveNext == CallBasePayment \/ CallRecommendPlan

ResolveSpec == ResolveInit /\ [][ResolveNext]_vars

Resolved == pc = "resolved" /\ ~state.missing_env

\* a reference in the request style: a 'PO-' code, or an integer above
\* 10,000,000
RequestStyle(po_ref) ==
    \/ po_ref.type = "str" /\ po_ref.prefix = "PO-"
    \/ po_ref.type = "int" /\ po_ref.n > RequestCodeFloor

\* C27: in recommend_payment_plan and calculate_base_payment a reference
\* that is a stored numeric key is used as-is, and a request-style reference
\* ('PO-' code or integer above 10,000,000) given with a supplier id of the
\* static mapping resolves to that supplier's key (SUP001 -> 1, SUP002 -> 2,
\* SUP003 -> 3, SUP999 -> 4).
C27_IdentifierResolution ==
    Resolved =>
        /\ state.po_id.type = "int" /\ state.po_id.n \in state.stored
              => result = ToolAnswer(state.po_id.n)
        /\ RequestStyle(state.po_id) /\ state.supplier_id \in DOMAIN _STATIC_PO_MAP
              => /\ result.po_id = _STATIC_PO_MAP[state.supplier_id]
                 /\ result.message # "Cannot resolve"

\* an integer above 10,000,000 given with SUP001, whose key 1 is stored, is
\* looked up as a key itself and not found
C27_TimestampNotMapped ==
    /\ Resolved
    /\ state.po_id = IntRef(Timestamp) /\ state.supplier_id = "SUP001"
    /\ 1 \in state.stored
    /\ result = ToolError("not found", Timestamp)

\* the key a reference stands for: the number itself for a numeric
\* reference, the supplier's key for a 'PO-' code given with a supplier id of
\* the static mapping, none for any other reference
KeyOf(po_ref, supplier_id) ==
    IF po_ref.type = "int" \/ po_ref.prefix = "" THEN Key(po_ref.n)
    ELSE IF /\ StripUpper(po_ref.prefix) = "PO-"
            /\ StripUpper(supplier_id) \in DOMAIN _STATIC_PO_MAP
         THEN Key(_STATIC_PO_MAP[StripUpper(supplier_id)])
         ELSE None

\* C28: the payment tools report two distinct errors: a reference that
\* cannot be mapped to any key yields the 'cannot resolve' error, and a
\* resolved key (any numeric key the caller passed included) with no stored
\* PO yields the 'not found' error; neither is reported as the other.
C28_TwoDistinctErrors ==
    Resolved =>
        LET key == KeyOf(state.po_id, state.supplier_id)
        IN  /\ key.none => result = ToolError("Cannot resolve", 0)
            /\ ~key.none /\ key.v \notin state.stored
                  => result = ToolError("not found", key.v)

\* the numeric key 0, which no PO has, is reported as unresolvable
C28_ZeroKeyCannotResolve ==
    /\ Resolved
    /\ state.po_id = IntRef(0)
    /\ result = ToolError("Cannot resolve", 0)

\* ------------------------------------- _handle_tool_response on its own
\* (src/workflows/po_workflow.py) every value a tool may hand back is given to
\* _handle_tool_response once, for every tool of the five servers
ToolNames ==
    UNION {ToolsOf(s) : s \in {"supplier", "budget", "approval", "notification", "payment"}}

NotHandled == [mapping |-> TRUE, body |-> "none"]

ResponseInit ==
    /\ state \in [response : Returns, tool_name : ToolNames]
    /\ pc = "response"
    /\ node = ""
    /\ result = NotHandled
    /\ trace = <<>>
    /\ lastCall = NoCalls
    /\ routed = ""

HandleResponse ==
    /\ pc = "response"
    /\ result' = _handle_tool_response(state.response)
    /\ pc' = "handled"
    /\ UNCHANGED <<state, node, trace, lastCall, routed>>

ResponseNext == HandleResponse

ResponseSpec == ResponseInit /\ [][ResponseNext]_vars

\* C29: _handle_tool_response always returns a mapping: a mapping is returned
\* unchanged, a non-empty sequence yields its first element when that is a
\* mapping, a text that parses yields the parsed mapping, and every other
\* response (unparsable text, text that parses to something that is not a
\* mapping, empty sequence, sequence of something else, other types) yields
\* a mapping with error: true.
C29_AlwaysReturnsMapping ==
    pc = "handled" =>
        /\ result.mapping
        /\ state.response.shape \in MappingShapes
              => result = [mapping |-> TRUE, body |-> state.response.body]
        /\ state.response.shape \in OtherShapes => result = ErrorMapping

\* a text that parses to something that is not a mapping comes back as parsed
C29_ParsedNonMappingReturned ==
    /\ pc = "handled"
    /\ state.response.shape = "str_nondict"
    /\ ~result.mapping

\* ------------------------------------------- validate_request on its own
\* the handler is entered with the state process_po builds for a request;
\* the requests are all combinations of the field values, a float('nan')
\* amount included
ValidateRequests ==
    [supplier_id : SupplierIds, amount : Amounts \cup {NaN}, department : Departments,
     items : ItemsValues, po_id : RequestPoIds]

ValidateInit ==
    /\ \E po_request \in ValidateRequests : state = initial_state(po_request)
    /\ pc = "node"
    /\ node = "validate_request"
    /\ result = NoResult
    /\ trace = <<>>
    /\ lastCall = NoCalls
    /\ routed = ""

ValidateNext == ValidateRequest

ValidateSpec == ValidateInit /\ [][ValidateNext]_vars

\* the request has a missing or empty required field, an amount that is not
\* a positive number, or items that is not a non-empty list
MissingOrEmpty(r) ==
    \/ r.supplier_id \in {"<absent>", ""}
    \/ r.department \in {"<absent>", ""}
    \/ r.amount.type = "absent" \/ r.amount.v = 0
    \/ r.items.type = "absent" \/ r.items.v = 0
InvalidRequest(r) ==
    \/ MissingOrEmpty(r)
    \/ ~(r.amount.type = "num" /\ r.amount.v > 0)
    \/ ~(r.items.type = "list" /\ r.items.v > 0)

\* C30: validate_request sets final_decision = REJECTED, with the validation
\* message appended to errors, exactly when the request has a missing or
\* empty required field, an amount that is not a positive number, or items
\* that is not a non-empty list; for a valid request it leaves
\* final_decision unset and errors unchanged.
C30_RejectsExactlyInvalidRequests ==
    [][HandlerReturns({"validate_request"}) =>
          IF InvalidRequest(state.po_request)
          THEN /\ state'.final_decision = "REJECTED"
               /\ state'.errors =
                      Append(state.errors,
                             <<helpers_validate_po_request(state.po_request)[2]>>)
          ELSE /\ state'.final_decision = ""
               /\ state'.errors = state.errors]_vars

\* a request whose amount is float('nan') has passed validation
C30_NaNAmountAccepted ==
    /\ pc = "branch" /\ node = "validate_request"
    /\ state.po_request.amount = NaN
    /\ state.final_decision = ""
    /\ state.errors = <<>>

\* C31: the optional analysis step never affects the outcome: for a given
\* request validate_request leaves the same po_id, final_decision,
\* decision_reason and errors whether the analysis collaborator succeeds,
\* fails or is unavailable; only the messages may differ.
C31_AnalysisNeverAffectsOutcome ==
    [][HandlerReturns({"validate_request"}) =>
          \A llm \in LlmOutcomes :
              LET other == validate_po_request(state, llm).st
              IN  /\ state'.po_id = other.po_id
                  /\ state'.final_decision = other.final_decision
                  /\ state'.decision_reason = other.decision_reason
                  /\ state'.errors = other.errors]_vars

\* a valid request was validated while the analysis call raised
C31_Witness ==
    /\ pc = "branch" /\ node = "validate_request"
    /\ helpers_validate_po_request(state.po_request)[1]
    /\ lastCall.calls = <<Call("llm", Raise, "")>>
    /\ state.messages = <<"Process PO", "validated successfully">>
    /\ state.final_decision = "" /\ state.errors = <<>>

\* both supplier collaborators were called and answered with a mapping that
\* does not carry error: true
SupplierAnswers(lc) ==
    /\ lc.stage = "check_supplier"
    /\ Len(lc.calls) = 2
    /\ \A i \in 1..2 : /\ lc.calls[i].outcome # Raise
                       /\ Handled(lc.calls[i]).mapping
                       /\ Handled(lc.calls[i]).body # "err"

\* C32: with both collaborators answering without error, check_supplier
\* rejects exactly when the supplier is invalid or the order is over
\* capacity, and decision_reason then lists every failing check: the supplier
\* message when invalid, the capacity message when over capacity, both when
\* both fail.
C32_SupplierRejectsAndListsReasons ==
    [][HandlerReturns({"check_supplier"}) /\ SupplierAnswers(lastCall') =>
          LET invalid == Handled(lastCall'.calls[1]).body = "neg"
              over == Handled(lastCall'.calls[2]).body = "neg"
          IN  IF invalid \/ over
              THEN /\ state'.final_decision = "REJECTED"
                   /\ state'.decision_reason =
                          <<"Supplier validation failed">>
                          \o (IF invalid THEN <<"supplier message">> ELSE <<>>)
                          \o (IF over THEN <<"Order exceeds capacity">> ELSE <<>>)
              ELSE /\ state'.final_decision = state.final_decision
                   /\ state'.decision_reason = state.decision_reason]_vars

\* the supplier is invalid and the order over capacity: both are listed
C32_Witness ==
    /\ pc = "branch" /\ node = "check_supplier"
    /\ SupplierAnswers(lastCall)
    /\ Handled(lastCall.calls[1]).body = "neg"
    /\ Handled(lastCall.calls[2]).body = "neg"
    /\ state.final_decision = "REJECTED"
    /\ state.decision_reason =
           <<"Supplier validation failed", "supplier message", "Order exceeds capacity">>

\* the availability check answered, without error, that the budget is
\* available (or not)
BudgetAnswered(lc, body) ==
    /\ lc.stage = "verify_budget"
    /\ Len(lc.calls) >= 1
    /\ lc.calls[1].outcome # Raise
    /\ Handled(lc.calls[1]).mapping
    /\ Handled(lc.calls[1]).body = body

ReservationAttempted(lc) == lc.stage = "verify_budget" /\ Len(lc.calls) = 2

\* reserve_budget raised, or answered with an error or with reserved false
ReservationFailed(lc) ==
    /\ ReservationAttempted(lc)
    /\ \/ lc.calls[2].outcome = Raise
       \/ /\ Handled(lc.calls[2]).mapping
          /\ Handled(lc.calls[2]).body \in {"err", "neg"}

\* C33: verify_budget sets REJECTED when the budget is unavailable and
\* attempts a reservation only when it is available; a failed reservation
\* (negative answer, error answer or a raising call) never changes
\* final_decision or decision_reason from what the availability check left.
C33_ReservationFailureKeepsDecision ==
    [][HandlerReturns({"verify_budget"}) =>
          /\ BudgetAnswered(lastCall', "neg") => state'.final_decision = "REJECTED"
          /\ ReservationAttempted(lastCall') => BudgetAnswered(lastCall', "pos")
          /\ ReservationFailed(lastCall')
                => /\ state'.final_decision = state.final_decision
                   /\ state'.decision_reason = state.decision_reason]_vars

\* the budget was available, reserve_budget raised, and the stage that found
\* the budget available ended in ERROR
C33_RaisingReservationGivesError ==
    /\ pc = "branch" /\ node = "verify_budget"
    /\ BudgetAnswered(lastCall, "pos")
    /\ ReservationAttempted(lastCall) /\ lastCall.calls[2].outcome = Raise
    /\ trace[1].decision = ""
    /\ state.final_decision = "ERROR"

\* the approvers lookup answered without error
ApproversAnswered(lc) ==
    /\ lc.stage = "process_approval"
    /\ Len(lc.calls) >= 1
    /\ lc.calls[1].outcome # Raise
    /\ Handled(lc.calls[1]).mapping
    /\ Handled(lc.calls[1]).body # "err"

\* C34: when the approvers lookup answers without error, process_approval
\* sets APPROVED if the auto-approve flag is set, dispatching no approval
\* request; otherwise it sets PENDING_APPROVAL, whether the dispatch of the
\* approval requests succeeds, returns an error or raises.
C34_ApprovedOrPending ==
    [][HandlerReturns({"process_approval"}) /\ ApproversAnswered(lastCall') =>
          IF Handled(lastCall'.calls[1]).body = "pos"
          THEN /\ state'.final_decision = "APPROVED"
               /\ Len(lastCall'.calls) = 1
          ELSE state'.final_decision = "PENDING_APPROVAL"]_vars

\* approval was required, send_approval_request raised, and the stage ended
\* in ERROR
C34_RaisingDispatchGivesError ==
    /\ pc = "branch" /\ node = "process_approval"
    /\ ApproversAnswered(lastCall)
    /\ Handled(lastCall.calls[1]).body = "neg"
    /\ Len(lastCall.calls) = 2 /\ lastCall.calls[2].outcome = Raise
    /\ state.final_decision = "ERROR"

\* C35: if process_po returns APPROVED or PENDING_APPROVAL, then in that run
\* the request passed validation, the supplier was valid with sufficient
\* capacity and the budget was available: no run ends approved or pending
\* after an earlier check rejected or errored.
C35_ApprovedOnlyAfterAllChecksPassed ==
    pc = "returned" /\ result.final_decision \in {"APPROVED", "PENDING_APPROVAL"}
      => \A i \in Steps :
            trace[i].stage \in {"validate_request", "check_supplier", "verify_budget"}
              => /\ trace[i].answers = "favourable"
                 /\ trace[i].decision \notin {"REJECTED", "ERROR"}

\* a run that check_supplier rejected has returned APPROVED
C35_ApprovedAfterRejection ==
    /\ pc = "returned"
    /\ result.final_decision = "APPROVED"
    /\ \E i \in RunsOf("check_supplier") :
          trace[i].decision = "REJECTED" /\ trace[i].answers = "negative"

\* --------------------------------------- the plan's policy for a supplier
\* (src/mcp_servers/payment_server.py, _recommend_payment_plan: the risk and
\* policy entries of the plan, for the history of the PO's supplier)
_milestone_for_band(band) ==
    CASE band = "LOW" -> "full_upfront"
      [] band = "MEDIUM" -> "balance_on_delivery_confirmation"
      [] band = "HIGH" -> "balance_after_quality_verification"
      [] band = "VERY_HIGH" -> "balance_after_full_delivery_and_quality_check"
      [] OTHER -> "balance_on_delivery_confirmation"

\* percentages in hundredths, as round(_, 2) leaves them
PlanPolicy(risk, ties) ==
    LET band == risk.risk_band
        upfront_pct == _upfront_percent(Score(risk.risk_score))
    IN  [band |-> band,
         upfront_percent |-> Round(upfront_pct, 100, ties[1]),
         balance_percent |-> Round(Minus(Rat(100, 1), upfront_pct), 100, ties[2]),
         milestone |-> _milestone_for_band(band)]

PolicyTies(risk) ==
    {<<t1, t2>> :
        t1 \in TiesOf(_upfront_percent(Score(risk.risk_score)), 100),
        t2 \in TiesOf(Minus(Rat(100, 1), _upfront_percent(Score(risk.risk_score))), 100)}

RiskPlanInit ==
    /\ state \in Histories
    /\ pc = "plan"
    /\ node = ""
    /\ result = [risk |-> RiskError(""), policy |-> PlanPolicy(RiskError(""), <<0, 0>>)]
    /\ trace = <<>>
    /\ lastCall = NoCalls
    /\ routed = ""

\* _recommend_payment_plan for a PO of a supplier with this history
RecommendPlan ==
    /\ pc = "plan"
    /\ \E ties \in RiskTies(state) :
          LET risk == _compute_supplier_risk_score(state, ties)
          IN  \E pties \in PolicyTies(risk) :
                  result' = [risk |-> risk, policy |-> PlanPolicy(risk, pties)]
    /\ pc' = "planned"
    /\ UNCHANGED <<state, node, trace, lastCall, routed>>

RiskPlanNext == RecommendPlan

RiskPlanSpec == RiskPlanInit /\ [][RiskPlanNext]_vars

\* C36: in every plan the band, the milestone and the upfront percentage
\* describe the same score: the band is LOW (milestone full_upfront) exactly
\* when upfront_percent is 100, and for the other bands the percentage is the
\* one the policy gives for a score of that band (the percentages of the four
\* bands do not overlap, so that is: the band is the band of the score the
\* percentage was computed from).
C36_BandMilestonePercentAgree ==
    pc = "planned" =>
        /\ result.policy.band = "LOW" <=> result.policy.upfront_percent = 100 * 100
        /\ result.policy.milestone = "full_upfront" <=> result.policy.band = "LOW"
        /\ result.policy.band = _risk_band(Score(result.risk.risk_score))

\* a plan of band MEDIUM, paid on delivery confirmation, with 100% upfront
C36_MediumBandFullUpfront ==
    /\ pc = "planned"
    /\ result.risk.risk_score = 80 * ScoreScale
    /\ result.policy.band = "MEDIUM"
    /\ result.policy.milestone = "balance_on_delivery_confirmation"
    /\ result.policy.upfront_percent = 100 * 100
    /\ result.policy.balance_percent = 0

\* ------------------------------------------ side-effecting business calls
SideEffectTools == {"reserve_budget", "send_approval_request"}

\* the handler that has just run invoked reserve_budget or send_approval_request
SideEffectCalled(lc) ==
    \E i \in 1..Len(lc.calls) : lc.calls[i].tool \in SideEffectTools

\* C37: a handler invokes reserve_budget or send_approval_request only while
\* final_decision is neither REJECTED nor ERROR and no earlier stage of the
\* run left such a decision.
C37_NoSideEffectAfterFailure ==
    [][pc = "node" /\ pc' = "branch" /\ SideEffectCalled(lastCall')
         => /\ state.final_decision \notin {"REJECTED", "ERROR"}
            /\ \A i \in Steps : trace[i].decision \notin {"REJECTED", "ERROR"}]_vars

\* a budget reservation made for a request that validation rejected
C37_ReservedAfterRejection ==
    /\ pc = "branch" /\ node = "verify_budget"
    /\ trace[1].stage = "validate_request" /\ trace[1].decision = "REJECTED"
    /\ \E i \in 1..Len(lastCall.calls) :
          /\ lastCall.calls[i].tool = "reserve_budget"
          /\ lastCall.calls[i].outcome # Raise
          /\ Handled(lastCall.calls[i]).mapping
          /\ Handled(lastCall.calls[i]).body = "pos"
    /\ state.messages[Len(state.messages)] = "Budget reserved"

\* =========================================================================
\* The budget ledger of budget_server.py under process_po runs.
\* state is BUDGETS (department -> allocated, spent, reserved; amounts in
\* whole currency units), trace the runs that still have a budget call to make,
\* each with the call it makes next, lastCall the tool call made last and what it
\* answered, result the number of runs submitted and of calls of
\* release_budget_reservation.  Each tool is one synchronous
\* function of the server, so a call is one step; the calls of different runs
\* interleave freely.
\* =========================================================================
LedgerDepartments == {"IT"}
CallDepartments == LedgerDepartments \cup {"NONE"}
CallAmounts == -MaxCallAmount..MaxCallAmount

Available(budget) == budget.allocated - budget.spent - budget.reserved

\* the "available" entry of the answer
check_budget_availability(BUDGETS, department_id, amount) ==
    IF department_id \notin DOMAIN BUDGETS THEN FALSE
    ELSE amount <= Available(BUDGETS[department_id])

\* ok is the "reserved" entry of the answer
reserve_budget(BUDGETS, department_id, amount) ==
    IF department_id \notin DOMAIN BUDGETS
        THEN [ok |-> FALSE, BUDGETS |-> BUDGETS]
    ELSE IF amount > Available(BUDGETS[department_id])
        THEN [ok |-> FALSE, BUDGETS |-> BUDGETS]
    ELSE [ok |-> TRUE,
          BUDGETS |-> [BUDGETS EXCEPT ![department_id].reserved = @ + amount]]

\* ok is the "released" entry of the answer
release_budget_reservation(BUDGETS, department_id, amount) ==
    IF department_id \notin DOMAIN BUDGETS
        THEN [ok |-> FALSE, BUDGETS |-> BUDGETS]
    ELSE IF BUDGETS[department_id].reserved >= amount
        THEN [ok |-> TRUE,
              BUDGETS |-> [BUDGETS EXCEPT ![department_id].reserved = @ - amount]]
    ELSE [ok |-> FALSE, BUDGETS |-> BUDGETS]

\* 0 <= reserved <= allocated - spent for every department
LedgerSound(BUDGETS) ==
    \A d \in DOMAIN BUDGETS :
        /\ 0 <= BUDGETS[d].reserved
        /\ BUDGETS[d].reserved <= BUDGETS[d].allocated - BUDGETS[d].spent

Ledgers ==
    {B \in [LedgerDepartments -> [allocated : 0..MaxLedgerAmount,
                                  spent : 0..MaxLedgerAmount,
                                  reserved : 0..MaxLedgerAmount]] : LedgerSound(B)}

\* the runs of a sequence but the one at position i, which made its last budget call
Without(runs, i) == SubSeq(runs, 1, i - 1) \o SubSeq(runs, i + 1, Len(runs))
NoLedgerCall == [tool |-> "", ok |-> FALSE]

BudgetInit ==
    /\ state \in Ledgers
    /\ pc = "ledger"
    /\ node = ""
    /\ result = [runs |-> 0, releases |-> 0]
    /\ trace = <<>>
    /\ lastCall = NoLedgerCall
    /\ routed = ""

\* process_po is called; the router sends the run on to verify_budget whatever
\* validation decided, so the amount is any number the caller submitted
SubmitRun ==
    /\ pc = "ledger"
    /\ result.runs < MaxRuns
    /\ \E d \in CallDepartments, a \in CallAmounts :
          trace' = Append(trace, [department |-> d, amount |-> a, at |-> "check"])
    /\ result' = [result EXCEPT !.runs = @ + 1]
    /\ UNCHANGED <<state, pc, node, lastCall, routed>>

\* verify_budget of run i calls check_budget_availability and goes on to
\* reserve_budget only when the answer says available
CheckBudget ==
    \E i \in 1..Len(trace) :
        /\ trace[i].at = "check"
        /\ LET r == trace[i]
               is_available == check_budget_availability(state, r.department, r.amount)
           IN  /\ trace' = IF is_available
                             THEN [trace EXCEPT ![i] = [r EXCEPT !.at = "reserve"]]
                             ELSE Without(trace, i)
               /\ lastCall' = [tool |-> "check_budget_availability", ok |-> is_available]
        /\ UNCHANGED <<state, pc, node, result, routed>>

ReserveBudget ==
    \E i \in 1..Len(trace) :
        /\ trace[i].at = "reserve"
        /\ LET r == trace[i]
               answer == reserve_budget(state, r.department, r.amount)
           IN  /\ state' = answer.BUDGETS
               /\ lastCall' = [tool |-> "reserve_budget", ok |-> answer.ok]
        /\ trace' = Without(trace, i)
        /\ UNCHANGED <<pc, node, result, routed>>

\* no handler of the workflow calls release_budget_reservation: the call
\* comes from another client of the server
ReleaseReservation ==
    /\ pc = "ledger"
    /\ result.releases < MaxReleases
    /\ \E d \in CallDepartments, a \in CallAmounts :
          LET answer == release_budget_reservation(state, d, a)
          IN  /\ state' = answer.BUDGETS
              /\ lastCall' = [tool |-> "release_budget_reservation", ok |-> answer.ok]
    /\ result' = [result EXCEPT !.releases = @ + 1]
    /\ UNCHANGED <<pc, node, trace, routed>>

BudgetNext ==
    \/ SubmitRun
    \/ CheckBudget
    \/ ReserveBudget
    \/ ReleaseReservation

BudgetSpec == BudgetInit /\ [][BudgetNext]_vars

\* C38: while only process_po runs have touched the ledger, every department
\* keeps 0 <= reserved <= allocated - spent, whatever amounts the runs carry
\* and however their budget calls interleave; and a reserve_budget or
\* release_budget_reservation call that fails leaves the ledger as it was.
C38_LedgerStaysSound ==
    [][/\ result'.releases = 0 => LedgerSound(state')
       /\ lastCall'.tool \in {"reserve_budget", "release_budget_reservation"}
            /\ ~lastCall'.ok
            => state' = state]_vars

\* a run with a negative amount has left a negative reserved total
C38_NegativeReservation ==
    /\ result.releases = 0
    /\ lastCall.tool = "reserve_budget" /\ lastCall.ok
    /\ state["IT"].reserved < 0

\* ----------------------------------------------- what notifications announce
\* the notification calls of the handler that went out: the tool was invoked
\* and answered
Dispatched(lc) ==
    {i \in 1..Len(lc.calls) : /\ lc.calls[i].tool \in ToolsOf("notification")
                              /\ lc.calls[i].outcome # Raise}

\* C39: every notification dispatched in a run carries the final_decision that
\* process_po returns for that run, also when a later notification call of
\* the stage fails.
C39_NotificationsAnnounceReturnedDecision ==
    pc = "returned" /\ lastCall.stage = "send_notifications"
      => \A i \in Dispatched(lastCall) : lastCall.calls[i].arg = result.final_decision

\* the email went out announcing APPROVED, the chat call raised and process_po
\* returned ERROR
C39_AnnouncedApprovedReturnedError ==
    /\ pc = "returned" /\ lastCall.stage = "send_notifications"
    /\ Len(lastCall.calls) = 2
    /\ lastCall.calls[1].tool = "send_email_notification"
    /\ lastCall.calls[1].outcome # Raise /\ lastCall.calls[1].arg = "APPROVED"
    /\ lastCall.calls[2].outcome = Raise
    /\ result.final_decision = "ERROR"

====
